---------------------------- MODULE Spec2Model ----------------------------
(***************************************************************************)
(* A model of the one-mcp gateway: the permission predicate and tool-name  *)
(* rewriting of Gateway.HandleMessage, the tools/list aggregation and the  *)
(* tools/call routing of the Gateway, the POST /mcp/messages handler with  *)
(* its per-session outbound queue, and UpstreamClient.Call with its        *)
(* pending-request map.                                                    *)
(*                                                                         *)
(* Strings that the code concatenates, splits or compares are sequences of *)
(* one-character strings, so that "a" + "__" + "b" is <<"a","_","_","b">>. *)
(***************************************************************************)
EXTENDS Integers, Sequences, FiniteSets, TLC

VARIABLES
    \* ---- pure-function harness (SpecPure) ----
    pin,        \* the inputs drawn for one evaluation
    pout,       \* the output of the evaluation made, if any
    \* ---- gateway and sessions (Spec) ----
    upstreams,  \* Gateway.upstreams: upstream name -> client (its Config)
    sessions,   \* the session registry: session id -> Session
    handlers,   \* the POST /mcp/messages handler goroutines
    httpStatus, \* the status of the latest HTTP reply to a POST
    crashed,    \* TRUE once a goroutine has panicked (the process is gone)
    nPosts,     \* number of POSTs accepted so far
    mu,         \* Gateway.mu and the ReloadUpstreams in progress (SpecReload)
    store,      \* the upstream_servers table (SpecAdmin)
    \* ---- one UpstreamClient (SpecClient) ----
    ready,      \* UpstreamClient.ready
    idCounter,  \* UpstreamClient.idCounter
    pendingReqs,\* UpstreamClient.pendingReqs: id string -> response channel
    calls,      \* the Calls made so far, each with its response channel
    wire,       \* the request ids the transport has sent to the upstream
    reader,     \* the transport goroutine that runs handleMessage
    transport,  \* the connect loop, transport.Start and its onReady callbacks
    \* ---- the GET /mcp/sse connections (SpecSession) ----
    conns,      \* connection -> position of its HandleSSE, token, session id
    \* ---- the api_keys table (SpecKeys) ----
    keys        \* the ApiKey rows

pureVars == <<pin, pout>>
gwVars ==
    <<upstreams, sessions, handlers, httpStatus, crashed, nPosts, mu, store>>
clientVars == <<ready, idCounter, pendingReqs, calls, wire, reader, transport>>
vars ==
    <<pin, pout, upstreams, sessions, handlers, httpStatus, crashed, nPosts,
      mu, store, ready, idCounter, pendingReqs, calls, wire, reader, transport,
      conns, keys>>

-----------------------------------------------------------------------------
(* Bounds of the model.                                                    *)

MaxListLen == 2      \* longest allowed_tools / allowed_servers list drawn
MaxNameLen == 2      \* longest upstream name / tool name drawn
\* SpecClient: one upstream client
MaxCalls == 2        \* Calls started in one behaviour
MaxCallbacks == 1    \* onReady goroutines launched and not yet run
\* Spec: the POST handlers and the sessions
MaxPosts == 2        \* POSTs accepted in one behaviour
\* SpecList: the tools/list aggregation
MaxListPosts == 1    \* tools/list requests POSTed in one behaviour
\* SpecQueue: one session's outbound queue
MaxQueuePosts == 11  \* POSTs accepted in one behaviour
\* SpecReload: the map lock
MaxDispatches == 2   \* dispatches started in one behaviour
\* SpecStdio: the stdio validation
MaxStarts == 2       \* StdioTransport.Start attempts in one behaviour
\* SpecSession: the SSE connections
MaxConns == 2        \* GET /mcp/sse requests in one behaviour
\* SpecTransport: one Start of one transport
MaxEvents == 2       \* endpoint events the upstream writes on one stream
MaxCloses == 2       \* calls of Close
\* SpecAdmin: the admin operations
MaxRows == 3         \* largest primary key of upstream_servers

-----------------------------------------------------------------------------
(* Strings.                                                                *)

Sep == <<"_", "_">>
Star == <<"*">>

Lists(U, n) == UNION {[1..k -> U] : k \in 0..n}

\* strings.Contains(s, "__")
ContainsSep(s) ==
    \E i \in 1..(Len(s) - 1) : s[i] = "_" /\ s[i + 1] = "_"

\* strings.Index(s, "__"), 1-based, 0 when absent
IndexSep(s) ==
    IF ContainsSep(s)
    THEN CHOOSE i \in 1..(Len(s) - 1) :
            /\ s[i] = "_" /\ s[i + 1] = "_"
            /\ \A j \in 1..(i - 1) : ~(s[j] = "_" /\ s[j + 1] = "_")
    ELSE 0

\* strings.SplitN(s, "__", 2)
SplitN(s) ==
    IF IndexSep(s) = 0
    THEN <<s>>
    ELSE <<SubSeq(s, 1, IndexSep(s) - 1), SubSeq(s, IndexSep(s) + 2, Len(s))>>

\* fmt.Sprintf("%s__%s", c.Config.Name, name)
Prefixed(serverName, name) == serverName \o Sep \o name

Digits == <<"0", "1", "2", "3", "4", "5", "6", "7", "8", "9">>

RECURSIVE Itoa(_)
\* fmt.Sprintf("%d", n) for n >= 0
Itoa(n) ==
    IF n < 10
    THEN <<Digits[n + 1]>>
    ELSE Itoa(n \div 10) \o <<Digits[(n % 10) + 1]>>

-----------------------------------------------------------------------------
(* The permission predicate built by Gateway.HandleMessage.                *)

\* for _, x := range list { m[x] = true }
ToMap(list) == {list[i] : i \in DOMAIN list}

\* A predicate that requires both the tool and the server to be allowed
hasPermissionBoth(allowedServerIDs, allowedTools, srvID, toolName) ==
    LET allowedSrv == ToMap(allowedServerIDs)
        allowedToolMap == ToMap(allowedTools)
    IN  /\ Cardinality(allowedToolMap) > 0
           => (Star \in allowedToolMap \/ toolName \in allowedToolMap)
        /\ Cardinality(allowedSrv) > 0 => srvID \in allowedSrv

\* A predicate that consults allowed_servers before allowed_tools
hasPermissionServerFirst(allowedServerIDs, allowedTools, srvID, toolName) ==
    LET allowedSrv == ToMap(allowedServerIDs)
        allowedToolMap == ToMap(allowedTools)
    IN  IF Cardinality(allowedSrv) > 0
        THEN srvID \in allowedSrv
        ELSE IF Cardinality(allowedToolMap) = 0
             THEN TRUE
             ELSE Star \in allowedToolMap \/ toolName \in allowedToolMap

\* hasPermission := func(srvID string, toolName string) bool, lines 69-89
hasPermission(allowedServerIDs, allowedTools, srvID, toolName) ==
    LET allowedSrv == ToMap(allowedServerIDs)
        allowedToolMap == ToMap(allowedTools)
    IN  IF Cardinality(allowedToolMap) > 0
        THEN IF Star \in allowedToolMap
             THEN TRUE
             ELSE toolName \in allowedToolMap
        ELSE IF Cardinality(allowedSrv) = 0
             THEN TRUE
             ELSE srvID \in allowedSrv

-----------------------------------------------------------------------------
(* Upstream configurations, tool catalogs and API keys of the model.       *)

\* model.UpstreamServer rows (ID, Name); Name is the key of Gateway.upstreams
ConfigUniverse ==
    { [id |-> 1, name |-> <<"a">>],
      [id |-> 12, name |-> <<"a", "_">>] }

\* A tool entry whose "name" is not a JSON string
NotString == <<"#">>

\* An upstream row outside the universe: its server never ends its pages
CyclicConfig == [id |-> 3, name |-> <<"c">>]

\* What each upstream serves for tools/list: cursor -> (tools, nextCursor).
\* The cursor "" asks for the first page.  Upstream "c" answers every page
\* with no tool and the cursor of another page
Catalog(name) ==
    IF name = <<"a">>
    THEN [c \in {"", "c1"} |->
            IF c = ""
            THEN [tools |-> <<<<"r">>>>, next |-> "c1"]
            ELSE [tools |-> <<<<"_", "b">>, NotString>>, next |-> ""]]
    ELSE IF name = CyclicConfig.name
    THEN [c \in {"", "c1", "c2"} |->
            [tools |-> <<>>, next |-> IF c = "c1" THEN "c2" ELSE "c1"]]
    ELSE [c \in {""} |-> [tools |-> <<<<"b">>>>, next |-> ""]]

\* Every tool name (a string) the upstream advertises on some page
Advertised(name) ==
    UNION {ToMap(Catalog(name)[c].tools) : c \in DOMAIN Catalog(name)}
        \ {NotString}

\* The databases the admin operations can produce: enabled rows with
\* distinct ids and distinct names (the unique index on Name)
Databases ==
    {db \in SUBSET ConfigUniverse :
        \A x, y \in db : (x.id = y.id \/ x.name = y.name) => x = y}

\* A stored permission column: the empty string, or a JSON array of strings
NoText == [empty |-> TRUE, items |-> <<>>]
Json(items) == [empty |-> FALSE, items |-> items]

\* model.ApiKey rows (Key, AllowedServers, AllowedTools)
ApiKeys ==
    { [key |-> "k-all", servers |-> NoText, tools |-> NoText],
      [key |-> "k-srv", servers |-> Json(<<<<"1", "2">>>>), tools |-> NoText],
      [key |-> "k-tool",
       servers |-> Json(<<<<"1", "2">>>>),
       tools |-> Json(<<Prefixed(<<"a">>, <<"r">>)>>)] }

\* if s != "" { json.Unmarshal([]byte(s), &list) }
ParseStringList(s) == IF s.empty THEN <<>> ELSE s.items

\* The permissions column of the dashboard's key table: the tag it renders
\* for a key
PermissionTag(k) ==
    IF ~k.tools.empty
    THEN IF Len(k.tools.items) = 0
         THEN "No Access"
         ELSE IF \E i \in 1..Len(k.tools.items) : k.tools.items[i] = Star
         THEN "All Tools"
         ELSE "Tools Allowed"
    ELSE IF Len(ParseStringList(k.servers)) = 0
    THEN "All Servers"
    ELSE "Servers"

\* The keys of the no-access specification: every pair of columns over a
\* few values, and of these the keys the dashboard tags "No Access"
KeyUniverse ==
    {[key |-> "k", servers |-> sv, tools |-> tl] :
        sv \in {NoText, Json(<<>>), Json(<<<<"1">>>>)},
        tl \in {NoText, Json(<<>>), Json(<<Star>>)}}

NoAccessKeys == {k \in KeyUniverse : PermissionTag(k) = "No Access"}

-----------------------------------------------------------------------------
(* JSON-RPC messages.  An id is a string; NoId stands for an absent id.    *)

NoId == "none"
ReqIds == {"1", "2"}

InvalidParams == -32602
MethodNotFound == -32601
ServerError == -32000
\* The JSON-RPC error codes an upstream answers with in the model
UpstreamErrorCodes == {InvalidParams, -32603}

ErrorResponse(id, code, message) ==
    [id |-> id, error |-> [code |-> code, message |-> message]]

ResultResponse(id, result) == [id |-> id, result |-> result]

IsError(resp) == "error" \in DOMAIN resp

\* A Go slice: nil until the first append
NilSlice == [nil |-> TRUE, items |-> <<>>]

\* append(s, xs...) with at least one element: the result is never nil
AppendAll(s, xs) ==
    IF Len(xs) = 0 THEN s ELSE [nil |-> FALSE, items |-> s.items \o xs]

\* json.Marshal of a slice: a nil slice is encoded as null, any other as an
\* array
MarshalSlice(s) ==
    IF s.nil
    THEN [null |-> TRUE, array |-> <<>>]
    ELSE [null |-> FALSE, array |-> s.items]

-----------------------------------------------------------------------------
(* Gateway.handleToolsList, one page: prefix and filter.                   *)

RECURSIVE FilterPage(_, _, _, _)
\* for _, tool := range result.Tools { ... } : the prefixed names appended
\* to allTools, in order
FilterPage(allowedServerIDs, allowedTools, c, tools) ==
    IF Len(tools) = 0
    THEN <<>>
    ELSE LET name == Head(tools)
             prefixedName == Prefixed(c.name, name)
             srvID == Itoa(c.id)
             rest == FilterPage(allowedServerIDs, allowedTools, c, Tail(tools))
         IN  IF name # NotString
                /\ hasPermission(allowedServerIDs, allowedTools, srvID,
                                 prefixedName)
             THEN <<prefixedName>> \o rest
             ELSE rest

-----------------------------------------------------------------------------
(* Gateway.handleToolCall up to the upstream Call: split, look up, check.  *)

\* A routing that forwards the prefixed name to the upstream
RouteToolCallKeepPrefix(ups, allowedServerIDs, allowedTools, id, name) ==
    LET parts == SplitN(name)
    IN  IF Len(parts) # 2
        THEN [forward |-> FALSE,
              resp |-> ErrorResponse(id, InvalidParams,
                                     "Invalid tool name format")]
        ELSE IF parts[1] \notin DOMAIN ups
        THEN [forward |-> FALSE,
              resp |-> ErrorResponse(id, InvalidParams, "Server not found")]
        ELSE IF ~hasPermission(allowedServerIDs, allowedTools,
                               Itoa(ups[parts[1]].id), name)
        THEN [forward |-> FALSE,
              resp |-> ErrorResponse(id, ServerError, "Permission denied")]
        ELSE [forward |-> TRUE, client |-> ups[parts[1]], toolName |-> name]

\* A routing that checks the permission before it looks the upstream up
RouteToolCallPermissionFirst(ups, allowedServerIDs, allowedTools, id, name) ==
    LET parts == SplitN(name)
        srvID == IF Len(parts) = 2 /\ parts[1] \in DOMAIN ups
                 THEN Itoa(ups[parts[1]].id)
                 ELSE <<>>
    IN  IF ~hasPermission(allowedServerIDs, allowedTools, srvID, name)
        THEN [forward |-> FALSE,
              resp |-> ErrorResponse(id, ServerError, "Permission denied")]
        ELSE IF Len(parts) # 2
        THEN [forward |-> FALSE,
              resp |-> ErrorResponse(id, InvalidParams,
                                     "Invalid tool name format")]
        ELSE IF parts[1] \notin DOMAIN ups
        THEN [forward |-> FALSE,
              resp |-> ErrorResponse(id, InvalidParams, "Server not found")]
        ELSE [forward |-> TRUE, client |-> ups[parts[1]],
              toolName |-> parts[2]]

\* A routing without the permission check
RouteToolCallNoCheck(ups, allowedServerIDs, allowedTools, id, name) ==
    LET parts == SplitN(name)
    IN  IF Len(parts) # 2
        THEN [forward |-> FALSE,
              resp |-> ErrorResponse(id, InvalidParams,
                                     "Invalid tool name format")]
        ELSE IF parts[1] \notin DOMAIN ups
        THEN [forward |-> FALSE,
              resp |-> ErrorResponse(id, InvalidParams, "Server not found")]
        ELSE [forward |-> TRUE, client |-> ups[parts[1]],
              toolName |-> parts[2]]

\* handleToolCall, lines 286-325: an error response, or the client to call
\* and the tool name to send it
RouteToolCall(ups, allowedServerIDs, allowedTools, id, name) ==
    LET parts == SplitN(name)
    IN  IF Len(parts) # 2
        THEN [forward |-> FALSE,
              resp |-> ErrorResponse(id, InvalidParams,
                                     "Invalid tool name format")]
        ELSE IF parts[1] \notin DOMAIN ups
        THEN [forward |-> FALSE,
              resp |-> ErrorResponse(id, InvalidParams, "Server not found")]
        ELSE IF ~hasPermission(allowedServerIDs, allowedTools,
                               Itoa(ups[parts[1]].id), name)
        THEN [forward |-> FALSE,
              resp |-> ErrorResponse(id, ServerError, "Permission denied")]
        ELSE [forward |-> TRUE, client |-> ups[parts[1]],
              toolName |-> parts[2]]

\* The name-keyed map ReloadUpstreams builds from the enabled rows
MapOf(db) ==
    [n \in {c.name : c \in db} |-> CHOOSE c \in db : c.name = n]

-----------------------------------------------------------------------------
(* Downstream requests.                                                    *)

CallMethods == {"tools/call", "callTool"}

\* A body that is not JSON
MalformedBody ==
    [valid |-> FALSE, id |-> NoId, method |-> "", paramsOk |-> FALSE,
     name |-> <<>>, args |-> "null"]

Body(id, method, paramsOk, name, args) ==
    [valid |-> TRUE, id |-> id, method |-> method, paramsOk |-> paramsOk,
     name |-> name, args |-> args]

\* The bodies POSTed in the gateway specification
Bodies ==
    {MalformedBody,
     Body(NoId, "notifications/initialized", TRUE, <<>>, "null"),
     Body("1", "ping", TRUE, <<>>, "null"),
     Body("2", "resources/list", TRUE, <<>>, "null"),
     Body("1", "tools/call", FALSE, <<>>, "null"),
     Body("2", "callTool", TRUE, Prefixed(<<"a">>, <<"r">>), "null"),
     Body("1", "tools/call", TRUE, Prefixed(<<"a">>, <<"r">>), "x"),
     Body("2", "tools/call", TRUE, Prefixed(<<"a">>, <<"_", "b">>), "x"),
     Body("1", "tools/call", TRUE, Prefixed(<<"b">>, <<"w">>), "x"),
     Body("2", "tools/call", TRUE, <<"n", "o", "_", "n", "s">>, "x")}

\* The bodies POSTed in the specification of the locally answered methods;
\* "resources/list" is no case of the switch
LocalMethods ==
    {"initialize", "notifications/initialized", "ping", "logging/setLevel",
     "completion/complete", "resources/list"}

LocalBodies ==
    {Body(IF m = "notifications/initialized" THEN NoId ELSE "1", m, TRUE,
          <<>>, "null") : m \in LocalMethods}

\* The bodies POSTed in the queue specification
QueueBodies ==
    {Body("1", "ping", TRUE, <<>>, "null"),
     Body("2", "resources/list", TRUE, <<>>, "null")}

\* The bodies POSTed in the tools/list specification
ListBodies == {Body(i, "tools/list", TRUE, <<>>, "null") : i \in ReqIds}

-----------------------------------------------------------------------------
(* Outcomes of UpstreamClient.Call as the Gateway sees them.               *)

\* Call returns (nil, err): not ready, send error or timeout
CallErrors == {"upstream not ready", "timeout waiting for upstream response"}

ListOutcomes ==
    {[kind |-> "err"], [kind |-> "badresult"], [kind |-> "ok"]}
    \cup {[kind |-> "rpcerr", code |-> c] : c \in UpstreamErrorCodes}

\* The ids an upstream response carries: those of UpstreamClient.idCounter
UpstreamIds == {"7"}

\* What an upstream writes in answer to a tools/call: a result, or a
\* JSON-RPC error without or with the "data" member
UpstreamAnswers ==
    {ResultResponse(u, [type |-> "upstream"]) : u \in UpstreamIds}
    \cup {ErrorResponse(u, InvalidParams, "upstream error") :
            u \in UpstreamIds}
    \cup {[id |-> u,
           error |-> [code |-> InvalidParams, message |-> "upstream error",
                      data |-> "detail"]] : u \in UpstreamIds}

\* json.Unmarshal(msg, &resp) in UpstreamClient.handleMessage: a
\* JSONRPCError has the fields Code and Message, the result stays raw
Unmarshal(m) ==
    IF IsError(m)
    THEN ErrorResponse(m.id, m.error.code, m.error.message)
    ELSE m

\* wire is the message the upstream wrote, resp what Call returns for it
CallOutcomes ==
    {[kind |-> "err", text |-> t] : t \in CallErrors}
    \cup {[kind |-> "resp", wire |-> w, resp |-> Unmarshal(w)] :
            w \in UpstreamAnswers}

-----------------------------------------------------------------------------
(* Handler goroutines.  A handler is the goroutine of one POST; between    *)
(* two blocking upstream Calls it runs without reading shared state, so    *)
(* each action takes it from one Call to the next, or to its reply.        *)

NoResponse == [none |-> TRUE]
NoCall == [none |-> TRUE]
NoHandler == [none |-> TRUE]
NoTasks == [c \in {} |-> 0]

Range(f) == {f[x] : x \in DOMAIN f}

\* The session ids uuid.New() hands out, and one that no session has
SessionIds == {"s1", "s2"}
UnknownSession == "s0"
\* The bodies POSTed in the no-access specification
NoAccessBodies ==
    {Body("1", "tools/list", TRUE, <<>>, "null"),
     Body("1", "tools/call", TRUE, Prefixed(<<"a">>, <<"r">>), "x"),
     Body("2", "callTool", TRUE, Prefixed(<<"a", "_">>, <<"b">>), "x")}

\* The session ids of the tools/list specification
ListSessionIds == {"s1"}

\* A handler blocked in an upstream Call: the session it looked up and the
\* sessionId of its POST, the request, and what it calls
Running(pc, sid, req, tasks, call) ==
    [pc |-> pc, sid |-> sid, session |-> sid, req |-> req, tasks |-> tasks,
     allTools |-> NilSlice, call |-> call]

NewTask == [pc |-> "callNil", cursor |-> "", clean |-> TRUE]

\* handleToolsList, lines 177-182: the snapshot of the map, one task each
Snapshot(ups) == [c \in Range(ups) |-> NewTask]

\* Gateway.handleInitialize and the methods HandleMessage answers itself
LocalResponse(req) ==
    IF req.method = "initialize"
    THEN ResultResponse(req.id, [type |-> "initialize"])
    ELSE IF req.method = "notifications/initialized"
    THEN NoResponse
    ELSE IF req.method \in {"ping", "logging/setLevel"}
    THEN ResultResponse(req.id, [type |-> "empty"])
    ELSE IF req.method = "completion/complete"
    THEN ResultResponse(req.id, [type |-> "completion"])
    ELSE ErrorResponse(req.id, MethodNotFound, "Method not supported")

\* A dispatch whose initialize needs an upstream in the map
DispatchInitializeNeedsUpstream(ups, sess, sid, req) ==
    IF ~req.valid
    THEN [h |-> NoHandler, status |-> 500, resp |-> NoResponse]
    ELSE IF req.method = "initialize" /\ DOMAIN ups = {}
    THEN [h |-> NoHandler, status |-> 202,
          resp |-> ErrorResponse(req.id, ServerError, "upstream not ready")]
    ELSE [h |-> NoHandler, status |-> 202, resp |-> LocalResponse(req)]

\* Gateway.HandleMessage up to its first blocking Call or to its return, for
\* a handler that found session sid: the handler if it blocks (h), and if it
\* does not the HTTP status it replies with and what HandleMessage returned
Dispatch(ups, sess, sid, req) ==
    IF ~req.valid
    THEN [h |-> NoHandler, status |-> 500, resp |-> NoResponse]
    ELSE IF req.method = "tools/list"
    THEN [h |-> Running("list", sid, req, Snapshot(ups), NoCall),
          status |-> 0, resp |-> NoResponse]
    ELSE IF req.method \in CallMethods
    THEN IF ~req.paramsOk
         THEN [h |-> NoHandler, status |-> 500, resp |-> NoResponse]
         ELSE LET r == RouteToolCall(ups, sess.allowedServers,
                                     sess.allowedTools, req.id, req.name)
              IN  IF r.forward
                  THEN [h |-> Running("call", sid, req, NoTasks,
                                      [client |-> r.client,
                                       name |-> r.toolName,
                                       arguments |-> req.args]),
                        status |-> 0, resp |-> NoResponse]
                  ELSE [h |-> NoHandler, status |-> 202, resp |-> r.resp]
    ELSE [h |-> NoHandler, status |-> 202, resp |-> LocalResponse(req)]

\* select { case session.MsgChan <- respBytes: default: } on a channel of
\* capacity QueueCap
QueueCap == 10

\* A send that does not give up on a full channel
EnqueueAlways(queue, m) == Append(queue, m)

Enqueue(queue, m) == IF Len(queue) < QueueCap THEN Append(queue, m) ELSE queue

\* Handler.HandleMessage, lines 390-396: the response to request req, POSTed
\* with sessionId sid, is put on the queue of the session the handler holds.
\* A queued message keeps the session and the id of the request it answers,
\* and the session counts the responses that took the default branch, which
\* the code does not: the properties read them.
Respond(sess, session, sid, req, resp) ==
    IF resp = NoResponse
    THEN sess
    ELSE [sess EXCEPT
            ![session].queue =
                Enqueue(@, [from |-> sid, reqId |-> req.id, resp |-> resp]),
            ![session].dropped =
                IF Len(sess[session].queue) < QueueCap THEN @ ELSE @ + 1]

-----------------------------------------------------------------------------
(* Gateway.handleToolsList: one upstream's goroutine, from one Call to the *)
(* next.  o is what the Call returns.                                      *)

DoneTask(clean) == [pc |-> "done", cursor |-> "", clean |-> clean]

\* A page taken after a retry whose nextCursor is not followed
TakePageNoFollow(task, sess, c) ==
    LET page == Catalog(c.name)[task.cursor]
    IN  [task |-> IF page.next = "" \/ ~task.clean
                  THEN DoneTask(task.clean)
                  ELSE [pc |-> "callPage", cursor |-> page.next,
                        clean |-> task.clean],
         appended |-> FilterPage(sess.allowedServers, sess.allowedTools, c,
                                 page.tools),
         panic |-> FALSE]

\* Lines 232-259: decode the page, prefix and filter, follow nextCursor
TakePage(task, sess, c) ==
    LET page == Catalog(c.name)[task.cursor]
    IN  [task |-> IF page.next = ""
                  THEN DoneTask(task.clean)
                  ELSE [pc |-> "callPage", cursor |-> page.next,
                        clean |-> task.clean],
         appended |-> FilterPage(sess.allowedServers, sess.allowedTools, c,
                                 page.tools),
         panic |-> FALSE]

\* The goroutine returns early: wg.Done runs, nothing more is appended
FailedTask == [pc |-> "failed", cursor |-> "", clean |-> FALSE]

GiveUp == [task |-> FailedTask, appended |-> <<>>, panic |-> FALSE]

\* Line 223 evaluates resp.Error with resp == nil: a nil dereference
NilDereference ==
    [task |-> [pc |-> "panic", cursor |-> "", clean |-> FALSE],
     appended |-> <<>>, panic |-> TRUE]

RetryWith(pc) ==
    [task |-> [pc |-> pc, cursor |-> "", clean |-> FALSE],
     appended |-> <<>>, panic |-> FALSE]

\* A loop that answers a third -32602 with another attempt
StepTaskRetryAgain(task, sess, c, o) ==
    IF o.kind = "ok"
    THEN TakePage(task, sess, c)
    ELSE IF o.kind = "rpcerr" /\ o.code = InvalidParams
    THEN IF task.pc = "callNil"
         THEN RetryWith("callEmpty")
         ELSE RetryWith("callNullCursor")
    ELSE GiveUp

StepTask(task, sess, c, o) ==
    IF task.pc \in {"callNil", "callPage"}
    THEN \* lines 198-207, 209-230
         IF o.kind = "err"
         THEN GiveUp
         ELSE IF o.kind = "rpcerr"
         THEN IF task.pc = "callNil" /\ o.code = InvalidParams
              THEN RetryWith("callEmpty")
              ELSE GiveUp
         ELSE IF o.kind = "badresult"
         THEN GiveUp
         ELSE TakePage(task, sess, c)
    ELSE IF task.pc = "callEmpty"
    THEN \* lines 216-225
         IF o.kind = "err"
         THEN NilDereference
         ELSE IF o.kind = "rpcerr"
         THEN IF o.code = InvalidParams
              THEN RetryWith("callNullCursor")
              ELSE GiveUp
         ELSE IF o.kind = "badresult"
         THEN GiveUp
         ELSE TakePage(task, sess, c)
    ELSE \* "callNullCursor", lines 219-225
         IF o.kind = "err"
         THEN NilDereference
         ELSE IF o.kind \in {"rpcerr", "badresult"}
         THEN GiveUp
         ELSE TakePage(task, sess, c)

-----------------------------------------------------------------------------
(* Actions of the gateway specification.                                   *)

Without(f, x) == [y \in DOMAIN f \ {x} |-> f[y]]

\* Gateway.mu is free, the store holds the enabled rows db and the map holds
\* one started client per row.  writer is the position of the goroutine
\* inside ReloadUpstreams, readers the number of read locks held, todo the
\* rows the loop has still to start, rows the enabled rows of the store at
\* the last query, committed the map as the last unlock left it, and
\* live[c] the number of clients of row c that were started and not stopped.
MutexIdle(db) ==
    [writer |-> "idle", readers |-> 0, todo |-> <<>>, rows |-> db,
     committed |-> MapOf(db),
     live |-> [c \in ConfigUniverse |-> IF c \in db THEN 1 ELSE 0]]

\* Gateway.ReloadUpstreams from Lock to Unlock as one step (the steps are
\* ReloadLock .. ReloadUnlock below); db is what the query for the enabled
\* rows returns
ReloadUpstreams(db) ==
    /\ ~crashed
    /\ upstreams' = MapOf(db)
    /\ mu' = MutexIdle(db)
    /\ UNCHANGED <<sessions, handlers, httpStatus, crashed, nPosts, store>>

\* Handler.HandleSSE up to the registration of the session under the fresh
\* id sid, for a bearer token that matches key k
HandleSSE(sid, k) ==
    /\ ~crashed
    /\ sid \notin DOMAIN sessions
    /\ sessions' = sessions @@
                   (sid :> [allowedServers |-> ParseStringList(k.servers),
                            allowedTools |-> ParseStringList(k.tools),
                            queue |-> <<>>, dropped |-> 0])
    /\ UNCHANGED <<upstreams, handlers, httpStatus, crashed, nPosts, mu, store>>

\* Handler.HandleSSE, lines 358-366: the writer takes the next message
SSEWrite(sid) ==
    /\ ~crashed
    /\ sid \in DOMAIN sessions
    /\ Len(sessions[sid].queue) > 0
    /\ sessions' = [sessions EXCEPT ![sid].queue = Tail(@)]
    /\ UNCHANGED <<upstreams, handlers, httpStatus, crashed, nPosts, mu, store>>

\* Handler.HandleMessage, lines 370-398, with Gateway.HandleMessage up to
\* its first upstream Call
PostMessage(sid, body) ==
    /\ ~crashed
    /\ nPosts' = nPosts + 1
    /\ IF sid \notin DOMAIN sessions
       THEN /\ httpStatus' = 404
            /\ UNCHANGED <<sessions, handlers, mu, store>>
       ELSE LET d == Dispatch(upstreams, sessions[sid], sid, body)
            IN  /\ handlers' = IF d.h = NoHandler
                               THEN handlers
                               ELSE handlers @@ ((nPosts + 1) :> d.h)
                /\ httpStatus' = IF d.h = NoHandler
                                 THEN d.status
                                 ELSE httpStatus
                /\ sessions' = Respond(sessions, sid, sid, body, d.resp)
    /\ UNCHANGED <<upstreams, crashed, mu, store>>

\* One Call of one upstream goroutine of handleToolsList returns o
ToolsListCall(h, c, o) ==
    /\ ~crashed
    /\ h \in DOMAIN handlers
    /\ handlers[h].pc = "list"
    /\ c \in DOMAIN handlers[h].tasks
    /\ handlers[h].tasks[c].pc \notin {"done", "failed", "panic"}
    /\ LET st == StepTask(handlers[h].tasks[c],
                          sessions[handlers[h].session], c, o)
       IN  /\ handlers' = [handlers EXCEPT
                             ![h].tasks[c] = st.task,
                             ![h].allTools = AppendAll(@, st.appended)]
           /\ crashed' = st.panic
    /\ UNCHANGED <<upstreams, sessions, httpStatus, nPosts, mu, store>>

\* HandleSSE, lines 342-345: the deferred function of the connection that
\* stored the session has run close(msgChan)
ChannelClosed(sid) ==
    \E c \in DOMAIN conns : conns[c].pc = "closed" /\ conns[c].sid = sid

\* handleToolsList, lines 263-271: wg.Wait returns and the result is built;
\* Handler.HandleMessage, lines 390-398.  The send on a closed MsgChan
\* panics; gin's Recovery answers 500
ToolsListReturn(h) ==
    /\ ~crashed
    /\ h \in DOMAIN handlers
    /\ handlers[h].pc = "list"
    /\ \A c \in DOMAIN handlers[h].tasks :
          handlers[h].tasks[c].pc \in {"done", "failed"}
    /\ IF ChannelClosed(handlers[h].session)
       THEN /\ sessions' = sessions
            /\ httpStatus' = 500
       ELSE /\ sessions' =
                 Respond(sessions, handlers[h].session, handlers[h].sid,
                         handlers[h].req,
                         ResultResponse(
                            handlers[h].req.id,
                            [type |-> "tools",
                             tools |-> MarshalSlice(handlers[h].allTools)]))
            /\ httpStatus' = 202
    /\ handlers' = Without(handlers, h)
    /\ UNCHANGED <<upstreams, crashed, nPosts, mu, store>>

\* A response passed on with the id the upstream gave it
ForwardedResponseKeepId(req, o) ==
    IF o.kind = "err"
    THEN ErrorResponse(req.id, ServerError, o.text)
    ELSE o.resp

\* handleToolCall, lines 325-340: a Call error becomes a -32000 error, a
\* response is passed on with the downstream request's id
ForwardedResponse(req, o) ==
    IF o.kind = "err"
    THEN ErrorResponse(req.id, ServerError, o.text)
    ELSE [o.resp EXCEPT !.id = req.id]

\* handleToolCall, lines 325-340: the upstream Call returns o;
\* Handler.HandleMessage, lines 390-398
ToolCallReturn(h, o) ==
    /\ ~crashed
    /\ h \in DOMAIN handlers
    /\ handlers[h].pc = "call"
    /\ IF ChannelClosed(handlers[h].session)
       THEN /\ sessions' = sessions
            /\ httpStatus' = 500
       ELSE /\ sessions' =
                 Respond(sessions, handlers[h].session, handlers[h].sid,
                         handlers[h].req,
                         ForwardedResponse(handlers[h].req, o))
            /\ httpStatus' = 202
    /\ handlers' = Without(handlers, h)
    /\ UNCHANGED <<upstreams, crashed, nPosts, mu, store>>

-----------------------------------------------------------------------------
(* Gateway.mu: ReloadUpstreams and the dispatch snapshots, one lock        *)
(* operation per step (SpecReload).                                        *)

\* The orders in which Find can return the rows db
Orders(db) ==
    {s \in [1..Cardinality(db) -> db] :
        \A i, j \in 1..Cardinality(db) : s[i] = s[j] => i = j}

\* sync.RWMutex: Lock waits for the writer and for every reader
CanLock(m) == m.writer = "idle" /\ m.readers = 0

CanRLockAlways(m) == TRUE

\* sync.RWMutex: RLock waits while a writer holds the lock
CanRLock(m) == m.writer = "idle"

RUnlockLate(m) == m

\* sync.RWMutex.RUnlock
RUnlock(m) == [m EXCEPT !.readers = @ - 1]

\* The entries of the map m a dispatch reads: handleToolsList copies every
\* client, handleToolCall looks one name up
Reads(names, m) == [n \in names \cap DOMAIN m |-> m[n]]

AllNames == {c.name : c \in ConfigUniverse}

\* What a dispatch can read: the whole map, or one server name
ReadSets == {AllNames} \cup {{n} : n \in AllNames}

\* ReloadUpstreams: g.mu.Lock()
ReloadLock ==
    /\ CanLock(mu)
    /\ mu' = [mu EXCEPT !.writer = "stop"]
    /\ UNCHANGED <<upstreams, sessions, handlers, httpStatus, crashed,
                   nPosts, store>>

\* ReloadUpstreams: Stop on every client of the map, then the empty map
ReloadStop ==
    /\ mu.writer = "stop"
    /\ mu' = [mu EXCEPT
                !.writer = "query",
                !.live = [c \in ConfigUniverse |->
                            IF c \in Range(upstreams)
                            THEN mu.live[c] - 1
                            ELSE mu.live[c]]]
    /\ upstreams' = MapOf({})
    /\ UNCHANGED <<sessions, handlers, httpStatus, crashed, nPosts, store>>

\* ReloadUpstreams: the query for the enabled rows db of the store; when it
\* fails the function logs and returns, and the deferred Unlock runs
ReloadQuery(db, ok) ==
    /\ mu.writer = "query"
    /\ IF ok
       THEN \E servers \in Orders(db) :
                mu' = [mu EXCEPT !.writer = "start", !.todo = servers,
                                 !.rows = db]
       ELSE mu' = [mu EXCEPT !.writer = "unlock", !.rows = db]
    /\ UNCHANGED <<upstreams, sessions, handlers, httpStatus, crashed,
                   nPosts, store>>

\* ReloadUpstreams: one round of the loop, NewUpstreamClient, Start and the
\* insertion under server.Name
ReloadStart ==
    /\ mu.writer = "start"
    /\ mu.todo # <<>>
    /\ LET server == Head(mu.todo)
       IN  /\ mu' = [mu EXCEPT !.todo = Tail(@),
                               !.live[server] = @ + 1]
           /\ upstreams' =
                [n \in DOMAIN upstreams \cup {server.name} |->
                    IF n = server.name THEN server ELSE upstreams[n]]
    /\ UNCHANGED <<sessions, handlers, httpStatus, crashed, nPosts, store>>

\* ReloadUpstreams returns: the deferred g.mu.Unlock()
ReloadUnlock ==
    /\ \/ mu.writer = "unlock"
       \/ mu.writer = "start" /\ mu.todo = <<>>
    /\ mu' = [mu EXCEPT !.writer = "idle", !.committed = upstreams]
    /\ UNCHANGED <<upstreams, sessions, handlers, httpStatus, crashed,
                   nPosts, store>>

\* A tools/list or tools/call dispatch arrives at its g.mu.RLock()
DispatchStart(names) ==
    /\ nPosts < MaxDispatches
    /\ nPosts' = nPosts + 1
    /\ handlers' =
         [h \in DOMAIN handlers \cup {nPosts + 1} |->
            IF h = nPosts + 1
            THEN [pc |-> "start", names |-> names,
                  snap |-> MapOf({}), seen |-> MapOf({})]
            ELSE handlers[h]]
    /\ UNCHANGED <<upstreams, sessions, httpStatus, crashed, mu, store>>

\* handleToolsList / handleToolCall: g.mu.RLock()
DispatchRLock(h) ==
    /\ handlers[h].pc = "start"
    /\ CanRLock(mu)
    /\ mu' = [mu EXCEPT !.readers = @ + 1]
    /\ handlers' = [handlers EXCEPT ![h].pc = "locked"]
    /\ UNCHANGED <<upstreams, sessions, httpStatus, crashed, nPosts, store>>

\* handleToolsList / handleToolCall: the copy of the clients (the lookup),
\* then g.mu.RUnlock(); the dispatch goes on to its upstream Calls.  seen
\* records the map as the last completed reload left it.
DispatchSnapshot(h) ==
    /\ handlers[h].pc = "locked"
    /\ handlers' = [handlers EXCEPT
                      ![h].pc = "blocked",
                      ![h].snap = Reads(handlers[h].names, upstreams),
                      ![h].seen = Reads(handlers[h].names, mu.committed)]
    /\ mu' = RUnlock(mu)
    /\ UNCHANGED <<upstreams, sessions, httpStatus, crashed, nPosts, store>>

\* The upstream Calls of the dispatch return and the dispatch ends
DispatchReturn(h) ==
    /\ handlers[h].pc = "blocked"
    /\ handlers' = Without(handlers, h)
    /\ UNCHANGED <<upstreams, sessions, httpStatus, crashed, nPosts, mu, store>>

-----------------------------------------------------------------------------
(* Evaluations of the pure functions on drawn inputs.                      *)

NoInput == [kind |-> "none"]
NoOutput == [kind |-> "none"]

ToolUniverse ==
    {Star, Prefixed(<<"a">>, <<"r">>), Prefixed(<<"a">>, <<"_", "b">>)}

ServerIdUniverse == {Itoa(c.id) : c \in ConfigUniverse}

\* The prefixed names a request asks for
PureNames == (ToolUniverse \ {Star}) \cup {Prefixed(<<"b">>, <<"w">>)}

\* One page of an upstream's tools/list result
PurePage == <<<<"r">>, <<"_", "b">>, NotString>>

\* Upstream names and tool names without "__"
Names ==
    {x \in Lists({"a", "_"}, MaxNameLen) : Len(x) > 0 /\ ~ContainsSep(x)}

\* A session's lists, a second allowed_servers list, an upstream, a name
PermInputs ==
    {[kind |-> "perm", allowedTools |-> t, allowedServers |-> a,
      otherServers |-> b, c |-> c, toolName |-> n] :
        t \in Lists(ToolUniverse, MaxListLen),
        a \in Lists(ServerIdUniverse, MaxListLen),
        b \in Lists(ServerIdUniverse, MaxListLen),
        c \in ConfigUniverse, n \in PureNames}

NameInputs ==
    {[kind |-> "name", serverName |-> n, name |-> t] :
        n \in Names, t \in Names}

\* hasPermission(srvID, toolName) under the session's lists, and under the
\* same allowed_tools with the other allowed_servers
EvalPermission ==
    /\ pin.kind = "perm" /\ pout = NoOutput
    /\ pout' = [kind |-> "perm",
                value |-> hasPermission(pin.allowedServers, pin.allowedTools,
                                        Itoa(pin.c.id), pin.toolName),
                other |-> hasPermission(pin.otherServers, pin.allowedTools,
                                        Itoa(pin.c.id), pin.toolName)]
    /\ UNCHANGED pin

\* The tools of one page that handleToolsList lists
EvalFilter ==
    /\ pin.kind = "perm" /\ pout = NoOutput
    /\ pout' = [kind |-> "filter",
                value |-> FilterPage(pin.allowedServers, pin.allowedTools,
                                     pin.c, PurePage),
                other |-> FilterPage(pin.otherServers, pin.allowedTools,
                                     pin.c, PurePage)]
    /\ UNCHANGED pin

\* handleToolCall up to the upstream Call, with every upstream registered
EvalRoute ==
    /\ pin.kind = "perm" /\ pout = NoOutput
    /\ pout' = [kind |-> "route",
                value |-> RouteToolCall(MapOf(ConfigUniverse),
                                        pin.allowedServers, pin.allowedTools,
                                        "1", pin.toolName),
                other |-> RouteToolCall(MapOf(ConfigUniverse),
                                        pin.otherServers, pin.allowedTools,
                                        "1", pin.toolName)]
    /\ UNCHANGED pin

\* The name handleToolsList produces, split as handleToolCall splits it
EvalSplit ==
    /\ pin.kind = "name" /\ pout = NoOutput
    /\ pout' = [kind |-> "split",
                prefixed |-> Prefixed(pin.serverName, pin.name),
                parts |-> SplitN(Prefixed(pin.serverName, pin.name))]
    /\ UNCHANGED pin

-----------------------------------------------------------------------------
(* One UpstreamClient: Call, its pending-request map, and handleMessage.   *)

RECURSIVE StripZeros(_)
\* The digits of a mantissa without its trailing zeros
StripZeros(d) ==
    IF Len(d) > 1 /\ d[Len(d)] = "0"
    THEN StripZeros(SubSeq(d, 1, Len(d) - 1))
    ELSE d

\* fmt.Sprintf("%v", idVal) for a JSON number decoded into interface{}, a
\* float64 holding the integer n >= 0: %g, the exponent form from 1e+06 on
FormatV(n) ==
    IF n < 1000000
    THEN Itoa(n)
    ELSE LET d == Itoa(n)
             m == StripZeros(d)
             e == Len(d) - 1
         IN  <<Head(m)>>
             \o (IF Len(m) > 1 THEN <<".">> \o Tail(m) ELSE <<>>)
             \o <<"e", "+">>
             \o (IF e < 10 THEN <<"0">> ELSE <<>>) \o Itoa(e)

Methods == {"initialize", "tools/list"}

\* respChan := make(chan JSONRPCMessage, 1)
ChanCap == 1

NoResult == [kind |-> "none"]
ErrResult(text) == [kind |-> "err", text |-> text]
ReaderIdle == [pc |-> "idle"]
NoPending == [s \in {} |-> 0]

\* A return that leaves the slot in the map
DeregisterNothing(pending, idStr) == pending

\* delete(c.pendingReqs, idStr)
Deregister(pending, idStr) == Without(pending, idStr)

\* A Call that does not look at ready
CallStartNoCheck(method) ==
    /\ calls' = Append(calls,
                       [method |-> method, pc |-> "alloc", id |-> 0,
                        chan |-> <<>>, result |-> NoResult])
    /\ UNCHANGED <<ready, idCounter, pendingReqs, wire, reader, transport>>

\* Call, lines 85-87: the readiness check
CallStart(method) ==
    /\ calls' = Append(calls,
                       IF ~ready /\ method # "initialize"
                       THEN [method |-> method, pc |-> "returned", id |-> 0,
                             chan |-> <<>>,
                             result |-> ErrResult("upstream not ready")]
                       ELSE [method |-> method, pc |-> "alloc", id |-> 0,
                             chan |-> <<>>, result |-> NoResult])
    /\ UNCHANGED <<ready, idCounter, pendingReqs, wire, reader, transport>>

\* An allocation that reads the counter and does not advance it
CallAllocNoIncrement(k) ==
    /\ calls[k].pc = "alloc"
    /\ calls' = [calls EXCEPT ![k].id = idCounter + 1, ![k].pc = "register"]
    /\ UNCHANGED <<ready, idCounter, pendingReqs, wire, reader, transport>>

\* Call, lines 89-91: atomic.AddInt64(&c.idCounter, 1)
CallAlloc(k) ==
    /\ calls[k].pc = "alloc"
    /\ idCounter' = idCounter + 1
    /\ calls' = [calls EXCEPT ![k].id = idCounter + 1, ![k].pc = "register"]
    /\ UNCHANGED <<ready, pendingReqs, wire, reader, transport>>

\* Call, lines 109-112: the slot is registered under the lock
CallRegister(k) ==
    /\ calls[k].pc = "register"
    /\ pendingReqs' = [s \in DOMAIN pendingReqs \cup {Itoa(calls[k].id)} |->
                         IF s = Itoa(calls[k].id) THEN k ELSE pendingReqs[s]]
    /\ calls' = [calls EXCEPT ![k].pc = "send"]
    /\ UNCHANGED <<ready, idCounter, wire, reader, transport>>

\* Call, lines 120-124: transport.Send succeeds (ok) or returns an error
CallSend(k, ok) ==
    /\ calls[k].pc = "send"
    /\ IF ok
       THEN /\ wire' = wire \cup {calls[k].id}
            /\ calls' = [calls EXCEPT ![k].pc = "wait"]
       ELSE /\ wire' = wire
            /\ calls' = [calls EXCEPT ![k].pc = "deferred",
                                      ![k].result = ErrResult("send error")]
    /\ UNCHANGED <<ready, idCounter, pendingReqs, reader, transport>>

\* Call, lines 120-124, on the HTTP wrapper: HTTPTransport.Send answers
\* initialize, tools/list and tools/call through reply, which runs
\* onMessage, the client's handleMessage, before Send returns.  The id of
\* the reply is the request's; handleMessage looks the slot up under
\* FormatV of it and sends on the channel it finds
CallSendSync(k) ==
    /\ calls[k].pc = "send"
    /\ wire' = wire \cup {calls[k].id}
    /\ LET idStr == FormatV(calls[k].id)
       IN  IF idStr \in DOMAIN pendingReqs
           THEN /\ Len(calls[pendingReqs[idStr]].chan) < ChanCap
                /\ calls' = [calls EXCEPT
                               ![pendingReqs[idStr]].chan =
                                   Append(@, [id |-> calls[k].id]),
                               ![k].pc = "wait"]
           ELSE calls' = [calls EXCEPT ![k].pc = "wait"]
    /\ UNCHANGED <<ready, idCounter, pendingReqs, reader, transport>>

\* Call, lines 126-133: case resp := <-respChan
CallReceive(k) ==
    /\ calls[k].pc = "wait"
    /\ Len(calls[k].chan) > 0
    /\ calls' = [calls EXCEPT
                   ![k].pc = "deferred",
                   ![k].chan = Tail(@),
                   ![k].result = [kind |-> "resp",
                                  resp |-> Head(calls[k].chan)]]
    /\ UNCHANGED <<ready, idCounter, pendingReqs, wire, reader, transport>>

\* Call, lines 134-137: case <-time.After(30 * time.Second).  The timer is
\* created when the select is entered, so this case is taken only while
\* respChan holds nothing
CallTimeout(k) ==
    /\ calls[k].pc = "wait"
    /\ Len(calls[k].chan) = 0
    /\ calls' = [calls EXCEPT
                   ![k].pc = "deferred",
                   ![k].result =
                       ErrResult("timeout waiting for upstream response")]
    /\ UNCHANGED <<ready, idCounter, pendingReqs, wire, reader, transport>>

\* Call, lines 114-118: the deferred function runs, then Call has returned
CallDeferred(k) ==
    /\ calls[k].pc = "deferred"
    /\ pendingReqs' = Deregister(pendingReqs, Itoa(calls[k].id))
    /\ calls' = [calls EXCEPT ![k].pc = "returned"]
    /\ UNCHANGED <<ready, idCounter, wire, reader, transport>>

\* What an upstream can write: a response (an id, no method), a request (an
\* id and a method) or a notification (a method, no id).  Method is
\* omitempty, so the decoded response has no method
InboundMessages ==
    {[id |-> i] : i \in 0..(MaxCalls + 1)}
    \cup {[id |-> i, method |-> "ping"] : i \in 0..(MaxCalls + 1)}
    \cup {[method |-> "notifications/message"]}

\* handleMessage, lines 215-235: the message msg arrives; if it has an id
\* (a JSON number) its slot is looked up under the lock
handleMessage(msg) ==
    /\ reader.pc = "idle"
    /\ reader' = IF /\ "id" \in DOMAIN msg
                    /\ FormatV(msg.id) \in DOMAIN pendingReqs
                 THEN [pc |-> "send", ch |-> pendingReqs[FormatV(msg.id)],
                       resp |-> msg]
                 ELSE reader
    /\ UNCHANGED <<ready, idCounter, pendingReqs, calls, wire, transport>>

\* handleMessage, lines 237-239: ch <- resp, which blocks while the channel
\* is full
handleMessageSend ==
    /\ reader.pc = "send"
    /\ Len(calls[reader.ch].chan) < ChanCap
    /\ calls' = [calls EXCEPT ![reader.ch].chan = Append(@, reader.resp)]
    /\ reader' = ReaderIdle
    /\ UNCHANGED <<ready, idCounter, pendingReqs, wire, transport>>

\* onTransportReady, lines 168-171
onTransportReady ==
    /\ ready' = TRUE
    /\ UNCHANGED <<idCounter, pendingReqs, calls, wire, reader, transport>>

\* connectLoop, lines 146-150: transport.Start has returned
connectLoop ==
    /\ ready' = FALSE
    /\ UNCHANGED <<idCounter, pendingReqs, calls, wire, reader, transport>>

-----------------------------------------------------------------------------
(* The connect loop and the transport of one UpstreamClient.  A transport  *)
(* reports readiness with "go onReady()": the callback runs in a goroutine *)
(* of its own, at any later time.                                          *)

\* running: transport.Start is executing; signalled: this Start has launched
\* its onReady; callbacks: launched onReady goroutines that have not run;
\* stopped: Stop has cancelled the context
TransportIdle ==
    [running |-> FALSE, signalled |-> FALSE, callbacks |-> 0,
     stopped |-> FALSE, pc |-> "select", late |-> 0]

\* connectLoop, lines 141-147: the context is live, transport.Start is called
TransportStart ==
    /\ ~transport.running /\ ~transport.stopped
    /\ transport' = [transport EXCEPT !.running = TRUE, !.signalled = FALSE]
    /\ UNCHANGED <<ready, idCounter, pendingReqs, calls, wire, reader>>

\* Transport.Start: go onReady()
TransportReady ==
    /\ transport.running /\ ~transport.signalled
    /\ transport' = [transport EXCEPT !.signalled = TRUE,
                                      !.callbacks = @ + 1]
    /\ UNCHANGED <<ready, idCounter, pendingReqs, calls, wire, reader>>

\* onTransportReady, lines 168-175, and initialize up to its Call: ready is
\* set, then Call("initialize", ...) passes the readiness check
onTransportReadyInitialize ==
    /\ transport.callbacks > 0
    /\ transport' = [transport EXCEPT !.callbacks = @ - 1]
    /\ ready' = TRUE
    /\ calls' = Append(calls,
                       [method |-> "initialize", pc |-> "alloc", id |-> 0,
                        chan |-> <<>>, result |-> NoResult])
    /\ UNCHANGED <<idCounter, pendingReqs, wire, reader>>

\* connectLoop, lines 146-150: transport.Start returns (end of stream,
\* error, or cancelled context) and ready is cleared
TransportReturn ==
    /\ transport.running
    /\ transport' = [transport EXCEPT !.running = FALSE]
    /\ ready' = FALSE
    /\ UNCHANGED <<idCounter, pendingReqs, calls, wire, reader>>

\* Stop, lines 68-71: cancel the context and close the transport
Stop ==
    /\ ~transport.stopped
    /\ transport' = [transport EXCEPT !.stopped = TRUE]
    /\ UNCHANGED <<ready, idCounter, pendingReqs, calls, wire, reader>>

\* The connect loop statement by statement (SpecLoop).  pc is the position
\* of the loop's goroutine, late the number of times transport.Start was
\* invoked after Stop had been called.

LoopSelectNoCancel ==
    /\ transport.pc = "select"
    /\ transport' = [transport EXCEPT !.pc = "start"]
    /\ UNCHANGED <<ready, idCounter, pendingReqs, calls, wire, reader>>

\* connectLoop, lines 142-145: select on ctx.Done() with a default branch
LoopSelect ==
    /\ transport.pc = "select"
    /\ transport' = [transport EXCEPT
                       !.pc = IF transport.stopped THEN "done" ELSE "start"]
    /\ UNCHANGED <<ready, idCounter, pendingReqs, calls, wire, reader>>

\* connectLoop, line 147: transport.Start is invoked
LoopStart ==
    /\ transport.pc = "start"
    /\ transport' = [transport EXCEPT
                       !.pc = "running", !.running = TRUE,
                       !.signalled = FALSE,
                       !.late = IF transport.stopped THEN @ + 1 ELSE @]
    /\ UNCHANGED <<ready, idCounter, pendingReqs, calls, wire, reader>>

\* connectLoop, lines 147-163: transport.Start returns, with an error or
\* cleanly, ready is cleared and the loop sleeps (not at all when the
\* context is cancelled)
LoopReturn ==
    /\ transport.pc = "running"
    /\ transport' = [transport EXCEPT !.pc = "sleep", !.running = FALSE]
    /\ ready' = FALSE
    /\ UNCHANGED <<idCounter, pendingReqs, calls, wire, reader>>

\* connectLoop, lines 153-163: the sleep ends and the loop goes round
LoopWake ==
    /\ transport.pc = "sleep"
    /\ transport' = [transport EXCEPT !.pc = "select"]
    /\ UNCHANGED <<ready, idCounter, pendingReqs, calls, wire, reader>>

-----------------------------------------------------------------------------
(* The three transports, one invocation of Start each (SpecTransport).     *)
(* transport holds: kind; pc, the position of Start (idle, connecting,     *)
(* open, returned); readies, the onReady goroutines this Start launched;   *)
(* events, the endpoint events read; closes, the calls of Close; handle,   *)
(* whether t.mu (sse) or t.cmd.Process (stdio) is set; released, whether   *)
(* Close has closed the body or killed the process; cancelled, the ctx.    *)

TransportKinds == {"sse", "stdio", "http"}

TransportOf(kind) ==
    [kind |-> kind, pc |-> "idle", readies |-> 0, events |-> 0, closes |-> 0,
     handle |-> FALSE, released |-> FALSE, cancelled |-> FALSE]

TransportUnchanged ==
    UNCHANGED <<ready, idCounter, pendingReqs, calls, wire, reader>>

\* connectLoop, line 147: transport.Start is invoked
StartInvoked ==
    /\ transport.pc = "idle"
    /\ transport' = [transport EXCEPT !.pc = "connecting"]
    /\ TransportUnchanged

\* SSETransport.Start, lines 50-77: the GET is answered with 200 (ok) and
\* t.mu is the body, or Do fails, as it does under a cancelled context
SSEDo(ok) ==
    /\ transport.kind = "sse" /\ transport.pc = "connecting"
    /\ transport' = IF ok /\ ~transport.cancelled
                    THEN [transport EXCEPT !.pc = "open", !.handle = TRUE]
                    ELSE [transport EXCEPT !.pc = "returned"]
    /\ TransportUnchanged

\* SSETransport.Start, lines 85-100: an endpoint event is read and
\* go onReady() runs
SSEEndpointEvent ==
    /\ transport.kind = "sse" /\ transport.pc = "open"
    /\ ~transport.released
    /\ transport.events < MaxEvents
    /\ transport' = [transport EXCEPT !.events = @ + 1, !.readies = @ + 1]
    /\ TransportUnchanged

\* SSETransport.Start, lines 83 and 111: the upstream ends the stream
SSEStreamEnds ==
    /\ transport.kind = "sse" /\ transport.pc = "open"
    /\ transport' = [transport EXCEPT !.pc = "returned"]
    /\ TransportUnchanged

\* SSETransport.Start, lines 83 and 111: Scan fails on the body that Close
\* closed or that the cancelled context aborted
SSEScanFails ==
    /\ transport.kind = "sse" /\ transport.pc = "open"
    /\ transport.released \/ transport.cancelled
    /\ transport' = [transport EXCEPT !.pc = "returned"]
    /\ TransportUnchanged

\* StdioTransport.Start, lines 170-227: cmd.Start succeeds (ok) and
\* go onReady() runs, or an earlier step or cmd.Start fails, as it does
\* under a cancelled context
StdioSpawn(ok) ==
    /\ transport.kind = "stdio" /\ transport.pc = "connecting"
    /\ transport' = IF ok /\ ~transport.cancelled
                    THEN [transport EXCEPT !.pc = "open", !.handle = TRUE,
                                           !.readies = @ + 1]
                    ELSE [transport EXCEPT !.pc = "returned"]
    /\ TransportUnchanged

\* StdioTransport.Start, lines 235-250: the process exits by itself
StdioProcessExits ==
    /\ transport.kind = "stdio" /\ transport.pc = "open"
    /\ transport' = [transport EXCEPT !.pc = "returned"]
    /\ TransportUnchanged

\* StdioTransport.Start, lines 235-250: the process was killed by Close or
\* by the cancelled context, stdout ends and Wait returns
StdioKilled ==
    /\ transport.kind = "stdio" /\ transport.pc = "open"
    /\ transport.released \/ transport.cancelled
    /\ transport' = [transport EXCEPT !.pc = "returned"]
    /\ TransportUnchanged

\* HTTPTransport.Start, lines 169-175: go onReady(), then Start waits
HTTPStart ==
    /\ transport.kind = "http" /\ transport.pc = "connecting"
    /\ transport' = [transport EXCEPT !.pc = "open", !.readies = @ + 1]
    /\ TransportUnchanged

\* HTTPTransport.Start, lines 178-179: <-ctx.Done()
HTTPDone ==
    /\ transport.kind = "http" /\ transport.pc = "open"
    /\ transport.cancelled
    /\ transport' = [transport EXCEPT !.pc = "returned"]
    /\ TransportUnchanged

\* SSETransport.Close, StdioTransport.Close and HTTPTransport.Close: the
\* body is closed if t.mu is set, the process killed if t.cmd.Process is
\* set, nothing for the wrapper
TransportClose ==
    /\ transport.closes < MaxCloses
    /\ transport' = [transport EXCEPT
                       !.closes = @ + 1,
                       !.released = IF transport.kind \in {"sse", "stdio"}
                                       /\ transport.handle
                                    THEN TRUE
                                    ELSE @]
    /\ TransportUnchanged

\* UpstreamClient.Stop, line 69: c.cancel()
ContextCancel ==
    /\ ~transport.cancelled
    /\ transport' = [transport EXCEPT !.cancelled = TRUE]
    /\ TransportUnchanged

-----------------------------------------------------------------------------
(* HTTPTransport: the wrapper of one REST endpoint as an MCP upstream with *)
(* one tool (SpecWrapper).                                                 *)

ParseError == -32700

\* ToolConfig.Name
WrappedTool == <<"w">>

\* ToolParameter (Name, Default); the empty string is "no default"
ParameterUniverse ==
    {[name |-> n, default |-> d] : n \in {"x", "y"}, d \in {"", "d", "e"}}

NoArguments == [k \in {} |-> ""]

\* The "arguments" objects of a tools/call
ArgumentMaps ==
    UNION {[ks -> {"v", "d"}] : ks \in SUBSET {"x", "y"}}

\* What the REST endpoint does with the request: client.Do fails, or an
\* answer with a status and the body "b"
Endpoints ==
    {[kind |-> "neterr"]}
    \cup {[kind |-> "http", status |-> st] : st \in {200, 399, 400, 500}}

\* f with the entries of g put over it
Override(f, g) ==
    [k \in DOMAIN f \cup DOMAIN g |-> IF k \in DOMAIN g THEN g[k] ELSE f[k]]

RECURSIVE FillDefaults(_)
\* handleToolCall, lines 341-346: the parameters in order, each non-empty
\* default stored under the parameter's name
FillDefaults(parameters) ==
    IF Len(parameters) = 0
    THEN NoArguments
    ELSE LET p == parameters[Len(parameters)]
             before == FillDefaults(SubSeq(parameters, 1,
                                           Len(parameters) - 1))
         IN  IF p.default # ""
             THEN Override(before, [k \in {p.name} |-> p.default])
             ELSE before

\* A merge in which a default replaces the caller's value
MergeArgumentsDefaultsWin(parameters, arguments) ==
    Override(arguments, FillDefaults(parameters))

\* handleToolCall, lines 338-351: finalArgs
MergeArguments(parameters, arguments) ==
    Override(FillDefaults(parameters), arguments)

\* executeHTTPRequest, lines 421-438: (response, err) for what the endpoint
\* does
executeHTTPRequest(endpoint) ==
    IF endpoint.kind = "neterr"
    THEN [err |-> TRUE, response |-> ""]
    ELSE IF endpoint.status >= 400
    THEN [err |-> FALSE,
          response |-> [text |-> "HTTP Error", status |-> endpoint.status,
                        body |-> "b"]]
    ELSE [err |-> FALSE, response |-> [text |-> "b"]]

\* handleToolCall, lines 353-375: the result replied for what
\* executeHTTPRequest returned
ToolCallResult(r) ==
    IF r.err
    THEN [content |-> <<[type |-> "text",
                         text |-> "Error executing HTTP request"]>>,
          isError |-> TRUE]
    ELSE [content |-> <<[type |-> "text", text |-> r.response]>>]

\* HTTPTransport.handleToolCall for the request in: the arguments the HTTP
\* request is built from (sent is FALSE when no request is made) and the
\* message handed to onMessage
HTTPToolCall(in) ==
    IF ~in.paramsOk
    THEN [kind |-> "wrap", sent |-> FALSE, args |-> NoArguments,
          msg |-> ErrorResponse(in.id, ParseError, "Parse error")]
    ELSE IF in.name # WrappedTool
    THEN [kind |-> "wrap", sent |-> FALSE, args |-> NoArguments,
          msg |-> ErrorResponse(in.id, MethodNotFound, "Tool not found")]
    ELSE [kind |-> "wrap", sent |-> TRUE,
          args |-> MergeArguments(in.parameters, in.arguments),
          msg |-> ResultResponse(
                     in.id, ToolCallResult(executeHTTPRequest(in.endpoint)))]

\* A tool_config, the params of a tools/call and the endpoint's behaviour
WrapperInputs ==
    {[kind |-> "wrap", id |-> "7", paramsOk |-> TRUE, name |-> WrappedTool,
      parameters |-> ps, arguments |-> a, endpoint |-> e] :
        ps \in Lists(ParameterUniverse, MaxListLen), a \in ArgumentMaps,
        e \in Endpoints}
    \cup {[kind |-> "wrap", id |-> "7", paramsOk |-> ok, name |-> n,
           parameters |-> <<>>, arguments |-> NoArguments,
           endpoint |-> [kind |-> "neterr"]] :
            ok \in BOOLEAN, n \in {WrappedTool, <<"r">>}}

\* HTTPTransport.Send of a tools/call
EvalToolCall ==
    /\ pin.kind = "wrap" /\ pout = NoOutput
    /\ pout' = HTTPToolCall(pin)
    /\ UNCHANGED pin

-----------------------------------------------------------------------------
(* Stdio upstreams: the validation of the command line by the admin        *)
(* operations and by StdioTransport.Start (SpecStdio).                     *)

\* ValidateCommand: forbidden := ";|&><$()!`*?[]{}~\\\"'\n\r"
Forbidden ==
    {";", "|", "&", ">", "<", "$", "(", ")", "!", "`", "*", "?", "[", "]",
     "{", "}", "~", "\\", "\"", "'", "\n", "\r"}

\* The characters of the commands and arguments of the model
CommandChars == {"l", ";", "$"}

\* strings.ContainsAny(s, forbidden)
ContainsAny(s, chars) == \E i \in DOMAIN s : s[i] \in chars

ValidateCommandOnly(command, args) ==
    command # <<>> /\ ~ContainsAny(command, Forbidden)

\* ValidateCommand returns nil
ValidateCommand(command, args) ==
    /\ command # <<>>
    /\ ~ContainsAny(command, Forbidden)
    /\ \A i \in DOMAIN args : ~ContainsAny(args[i], Forbidden)

\* The Args column: the empty string, a JSON array of strings, or a text
\* that json.Unmarshal into []string rejects
NotJson == [empty |-> FALSE, invalid |-> TRUE, items |-> <<>>]

ArgsColumns ==
    {[empty |-> TRUE, invalid |-> FALSE, items |-> <<>>], NotJson}
    \cup {[empty |-> FALSE, invalid |-> FALSE, items |-> a] :
            a \in Lists(Lists(CommandChars, 1), MaxListLen)}

\* An UpstreamServer as an admin request submits it (for UpdateServer: the
\* stored row with the request bound over it), or as the store holds it
\* when the program starts (stored)
StdioInputs ==
    {[kind |-> "stdio", transportType |-> t, command |-> c, args |-> a,
      stored |-> st] :
        t \in {"stdio", "sse"}, c \in Lists(CommandChars, MaxNameLen),
        a \in ArgsColumns, st \in BOOLEAN}

\* CreateServer, lines 153-165, and UpdateServer, lines 198-210: the HTTP
\* status 400 of a rejection, 0 when the request passes the checks
AdminValidate(server) ==
    IF server.transportType = "stdio"
    THEN IF server.args.invalid
         THEN 400
         ELSE IF ~ValidateCommand(server.command,
                                  ParseStringList(server.args))
         THEN 400
         ELSE 0
    ELSE 0

\* No row, no child process, no Start attempt
StdioIdle ==
    [kind |-> "stdio", status |-> 0, row |-> FALSE, starts |-> 0,
     spawned |-> FALSE, signalled |-> FALSE]

\* CreateServer or UpdateServer with the server pin: rejected with 400, or
\* saved and answered 200
SaveServer ==
    /\ pin.kind = "stdio" /\ ~pin.stored
    /\ pout.kind = "stdio" /\ pout.status = 0
    /\ pout' = IF AdminValidate(pin) = 400
               THEN [pout EXCEPT !.status = 400]
               ELSE [pout EXCEPT !.status = 200, !.row = TRUE]
    /\ UNCHANGED pin

\* StdioTransport.Start, lines 169-227, called by the connect loop of the
\* client ReloadUpstreams made for the row: an error before the child is
\* created, or the child is started and onReady is launched
StdioStart ==
    /\ pin.kind = "stdio" /\ pin.transportType = "stdio"
    /\ pout.kind = "stdio" /\ pout.row
    /\ pout.starts < MaxStarts
    /\ pout' = IF pin.args.invalid
               THEN [pout EXCEPT !.starts = @ + 1]
               ELSE IF ~ValidateCommand(pin.command,
                                        ParseStringList(pin.args))
               THEN [pout EXCEPT !.starts = @ + 1]
               ELSE [pout EXCEPT !.starts = @ + 1, !.spawned = TRUE,
                                 !.signalled = TRUE]
    /\ UNCHANGED pin

-----------------------------------------------------------------------------
(* Handler.HandleSSE, one connection from the request to its close         *)
(* (SpecSession).                                                          *)

Conns == 1..MaxConns

\* The bearer tokens of the requests: the stored keys and one that is not
Tokens == {k.key : k \in ApiKeys} \cup {"bad"}

\* No GET /mcp/sse has been made.  key is the row a connection found when
\* it looked its token up, kept for the properties
NoKey == [key |-> "", servers |-> NoText, tools |-> NoText]

NoConns ==
    [c \in Conns |-> [pc |-> "idle", token |-> "", sid |-> "", status |-> 0,
                      key |-> NoKey]]

\* The bodies POSTed in the session specification
SessionBodies ==
    {Body("1", "ping", TRUE, <<>>, "null"),
     Body(NoId, "notifications/initialized", TRUE, <<>>, "null")}

\* HandleSSE, lines 298-340: 401 without a key of that token, otherwise the
\* session is stored under the fresh id sid, which no connection had
SSEConnect(c, token, sid) ==
    /\ conns[c].pc = "idle"
    /\ IF ~\E k \in keys : k.key = token
       THEN /\ conns' = [conns EXCEPT ![c] = [pc |-> "rejected",
                                              token |-> token, sid |-> "",
                                              status |-> 401, key |-> NoKey]]
            /\ UNCHANGED gwVars
       ELSE /\ \A d \in Conns : conns[d].sid # sid
            /\ HandleSSE(sid, CHOOSE k \in keys : k.key = token)
            /\ conns' = [conns EXCEPT
                           ![c] = [pc |-> "registered", token |-> token,
                                   sid |-> sid, status |-> 0,
                                   key |-> CHOOSE k \in keys : k.key = token]]

\* HandleSSE, lines 346-354: the endpoint event is written
SSEEndpoint(c) ==
    /\ ~crashed
    /\ conns[c].pc = "registered"
    /\ conns' = [conns EXCEPT ![c].pc = "open", ![c].status = 200]
    /\ UNCHANGED gwVars

\* HandleSSE, lines 358-362: the writer loop takes a message
SSEMessage(c) ==
    /\ conns[c].pc = "open"
    /\ SSEWrite(conns[c].sid)
    /\ UNCHANGED conns

\* A close that leaves the session in the registry
SSECloseNoDelete(c) ==
    /\ ~crashed
    /\ conns[c].pc = "open"
    /\ conns' = [conns EXCEPT ![c].pc = "closed"]
    /\ UNCHANGED gwVars

\* HandleSSE, lines 342-345 and 363-364: the connection closes, the loop
\* returns and the deferred function deletes the session
SSEClose(c) ==
    /\ ~crashed
    /\ conns[c].pc = "open"
    /\ sessions' = Without(sessions, conns[c].sid)
    /\ conns' = [conns EXCEPT ![c].pc = "closed"]
    /\ UNCHANGED <<upstreams, handlers, httpStatus, crashed, nPosts, mu,
                   store>>

-----------------------------------------------------------------------------
(* The admin operations on the api_keys table (SpecKeys).  A row is found  *)
(* by its key, which the unique index keeps distinct.                      *)

\* The permission columns the admin writes: no restriction, or server 1
\* with one of its tools
KeyUpdates ==
    {[servers |-> NoText, tools |-> NoText],
     [servers |-> Json(<<<<"1">>>>),
      tools |-> Json(<<Prefixed(<<"a">>, <<"r">>)>>)]}

\* What the upstream answers a forwarded call in the keys specification
KeyOutcomes == {[kind |-> "err", text |-> "upstream not ready"]}

\* uuid.New, line 309: one id no connection has been given (any id once
\* the universe is used up: the registration is then not modelled)
FreshSessionIds ==
    LET free == {s \in SessionIds : \A d \in Conns : conns[d].sid # s}
    IN  IF free = {} THEN {"s1"} ELSE {CHOOSE s \in free : TRUE}

\* The key the admin edits and the clients present in the keys
\* specification
EditedKeys == {"k-tool"}

\* The bodies POSTed in the keys specification
KeyBodies ==
    {Body("1", "tools/call", TRUE, Prefixed(<<"a">>, <<"r">>), "x"),
     Body("1", "tools/call", TRUE, Prefixed(<<"a">>, <<"w">>), "x")}

\* An update that rewrites the permissions of the sessions opened with the
\* key
UpdateKeyRefreshSessions(key, servers, tools) ==
    /\ ~crashed
    /\ \E k \in keys : k.key = key
    /\ keys' = {k \in keys : k.key # key}
                \cup {[key |-> key, servers |-> servers, tools |-> tools]}
    /\ sessions' =
          [sid \in DOMAIN sessions |->
              IF \E c \in Conns : conns[c].sid = sid /\ conns[c].token = key
              THEN [sessions[sid] EXCEPT
                      !.allowedServers = ParseStringList(servers),
                      !.allowedTools = ParseStringList(tools)]
              ELSE sessions[sid]]
    /\ httpStatus' = 200
    /\ UNCHANGED <<upstreams, handlers, crashed, nPosts, mu, store>>

\* UpdateKey, lines 245-271: 404 without the row, otherwise the two
\* permission columns are overwritten and the row saved
UpdateKey(key, servers, tools) ==
    /\ ~crashed
    /\ IF \E k \in keys : k.key = key
       THEN /\ keys' = {k \in keys : k.key # key}
                       \cup {[key |-> key, servers |-> servers,
                              tools |-> tools]}
            /\ httpStatus' = 200
       ELSE /\ keys' = keys
            /\ httpStatus' = 404
    /\ UNCHANGED <<upstreams, sessions, handlers, crashed, nPosts, mu, store>>

\* DeleteKey, lines 273-277
DeleteKey(key) ==
    /\ ~crashed
    /\ keys' = {k \in keys : k.key # key}
    /\ httpStatus' = 200
    /\ UNCHANGED <<upstreams, sessions, handlers, crashed, nPosts, mu, store>>

-----------------------------------------------------------------------------
(* The admin operations on the upstream_servers table (SpecAdmin).  A row  *)
(* is (ID, Name, Enabled); each operation ends with ReloadUpstreams.       *)

\* The names the admin requests carry
AdminNames == {<<"a">>, <<"a", "_">>, <<"a", "_", "_", "b">>}

\* The primary key of the next row: one more than the largest in the table
NextID(rows) ==
    IF rows = {}
    THEN 1
    ELSE (CHOOSE i \in {r.id : r \in rows} :
             \A r \in rows : r.id <= i) + 1

\* Where("enabled = ?", true).Find(&servers)
EnabledRows(rows) ==
    {[id |-> r.id, name |-> r.name] : r \in {x \in rows : x.enabled}}

\* CreateServer, lines 146-184: 400 when a row has the name, otherwise the
\* row is created and the upstreams are reloaded
CreateServer(name, enabled) ==
    /\ ~crashed
    /\ IF \E r \in store : r.name = name
       THEN /\ httpStatus' = 400
            /\ UNCHANGED <<store, upstreams, mu>>
       ELSE /\ NextID(store) <= MaxRows
            /\ store' = store \cup {[id |-> NextID(store), name |-> name,
                                     enabled |-> enabled]}
            /\ upstreams' = MapOf(EnabledRows(store'))
            /\ mu' = MutexIdle(EnabledRows(store'))
            /\ httpStatus' = 200
    /\ UNCHANGED <<sessions, handlers, crashed, nPosts>>

\* UpdateServer, lines 186-217: 404 without the row; Save fails on the
\* unique index of Name when another row has the name, and its error is
\* not looked at
UpdateServer(id, name, enabled) ==
    /\ ~crashed
    /\ IF ~\E r \in store : r.id = id
       THEN /\ httpStatus' = 404
            /\ UNCHANGED <<store, upstreams, mu>>
       ELSE /\ store' =
                 IF \E r \in store : r.id # id /\ r.name = name
                 THEN store
                 ELSE {r \in store : r.id # id}
                      \cup {[id |-> id, name |-> name, enabled |-> enabled]}
            /\ upstreams' = MapOf(EnabledRows(store'))
            /\ mu' = MutexIdle(EnabledRows(store'))
            /\ httpStatus' = 200
    /\ UNCHANGED <<sessions, handlers, crashed, nPosts>>

\* DeleteServer, lines 219-224
DeleteServer(id) ==
    /\ ~crashed
    /\ store' = {r \in store : r.id # id}
    /\ upstreams' = MapOf(EnabledRows(store'))
    /\ mu' = MutexIdle(EnabledRows(store'))
    /\ httpStatus' = 200
    /\ UNCHANGED <<sessions, handlers, crashed, nPosts>>

-----------------------------------------------------------------------------
(* Initial states and next-state relations.                                *)

PureIdle == pin = NoInput /\ pout = NoOutput

NoSessions == [sid \in {} |-> 0]

GatewayIdle ==
    /\ upstreams = MapOf({})
    /\ sessions = NoSessions
    /\ handlers = NoTasks
    /\ httpStatus = 0
    /\ crashed = FALSE
    /\ nPosts = 0
    /\ mu = MutexIdle({})
    /\ store = {}
    /\ conns = NoConns
    /\ keys = ApiKeys

\* NewUpstreamClient, lines 59-65
ClientIdle ==
    /\ ready = FALSE
    /\ idCounter = 0
    /\ pendingReqs = NoPending
    /\ calls = <<>>
    /\ wire = {}
    /\ reader = ReaderIdle
    /\ transport = TransportIdle

\* main: NewGateway, then ReloadUpstreams over the stored rows
Init ==
    /\ PureIdle
    /\ ClientIdle
    /\ \E db \in Databases : upstreams = MapOf(db) /\ mu = MutexIdle(db)
    /\ store = {}
    /\ conns = NoConns
    /\ keys = ApiKeys
    /\ sessions = NoSessions
    /\ handlers = NoTasks
    /\ httpStatus = 0
    /\ crashed = FALSE
    /\ nPosts = 0

InitPure ==
    /\ pin \in PermInputs \cup NameInputs
    /\ pout = NoOutput
    /\ GatewayIdle
    /\ ClientIdle

InitWrapper ==
    /\ pin \in WrapperInputs
    /\ pout = NoOutput
    /\ GatewayIdle
    /\ ClientIdle

InitStdio ==
    /\ pin \in StdioInputs
    /\ pout = [StdioIdle EXCEPT !.row = pin.stored]
    /\ GatewayIdle
    /\ ClientIdle

InitClient ==
    /\ PureIdle
    /\ GatewayIdle
    /\ ClientIdle

Next ==
    /\ UNCHANGED <<pureVars, clientVars, conns, keys>>
    /\ \/ \E db \in Databases : ReloadUpstreams(db)
       \/ \E sid \in SessionIds, k \in ApiKeys : HandleSSE(sid, k)
       \/ \E sid \in SessionIds : SSEWrite(sid)
       \/ \E sid \in SessionIds \cup {UnknownSession}, body \in Bodies :
             nPosts < MaxPosts /\ PostMessage(sid, body)
       \/ \E h \in DOMAIN handlers, o \in CallOutcomes : ToolCallReturn(h, o)

NextList ==
    /\ UNCHANGED <<pureVars, clientVars, conns, keys>>
    /\ \/ \E db \in Databases : ReloadUpstreams(db)
       \/ \E sid \in ListSessionIds, k \in ApiKeys : HandleSSE(sid, k)
       \/ \E sid \in ListSessionIds : SSEWrite(sid)
       \/ \E sid \in ListSessionIds \cup {UnknownSession},
             body \in ListBodies :
             nPosts < MaxListPosts /\ PostMessage(sid, body)
       \/ \E h \in DOMAIN handlers, c \in ConfigUniverse, o \in ListOutcomes :
             ToolsListCall(h, c, o)
       \/ \E h \in DOMAIN handlers : ToolsListReturn(h)

NextQueue ==
    /\ UNCHANGED <<pureVars, clientVars, conns, keys>>
    /\ \/ \E sid \in ListSessionIds, k \in ApiKeys : HandleSSE(sid, k)
       \/ \E sid \in ListSessionIds : SSEWrite(sid)
       \/ \E sid \in ListSessionIds, body \in QueueBodies :
             nPosts < MaxQueuePosts /\ PostMessage(sid, body)

NextLocal ==
    /\ UNCHANGED <<pureVars, clientVars, conns, keys>>
    /\ \/ \E db \in Databases : ReloadUpstreams(db)
       \/ \E sid \in ListSessionIds, k \in ApiKeys : HandleSSE(sid, k)
       \/ \E sid \in ListSessionIds : SSEWrite(sid)
       \/ \E sid \in ListSessionIds, body \in LocalBodies :
             nPosts < MaxPosts /\ PostMessage(sid, body)

NextPure ==
    /\ UNCHANGED <<gwVars, clientVars, conns, keys>>
    /\ \/ EvalPermission
       \/ EvalFilter
       \/ EvalRoute
       \/ EvalSplit

NextWrapper ==
    /\ UNCHANGED <<gwVars, clientVars, conns, keys>>
    /\ EvalToolCall

NextStdio ==
    /\ UNCHANGED <<gwVars, clientVars, conns, keys>>
    /\ \/ SaveServer
       \/ StdioStart

NextSession ==
    /\ UNCHANGED <<pureVars, clientVars, keys>>
    /\ \/ \E c \in Conns, token \in Tokens, sid \in SessionIds :
             SSEConnect(c, token, sid)
       \/ \E c \in Conns : SSEEndpoint(c)
       \/ \E c \in Conns : SSEMessage(c)
       \/ \E c \in Conns : SSEClose(c)
       \/ \E sid \in SessionIds \cup {UnknownSession}, body \in SessionBodies :
             nPosts < MaxPosts /\ PostMessage(sid, body) /\ UNCHANGED conns

\* The bodies POSTed in the disconnect specification
DisconnectBodies ==
    {Body("1", "tools/call", TRUE, Prefixed(<<"a">>, <<"r">>), "x")}

NextDisconnect ==
    /\ UNCHANGED <<pureVars, clientVars, keys>>
    /\ \/ \E c \in Conns, token \in Tokens, sid \in SessionIds :
             SSEConnect(c, token, sid)
       \/ \E c \in Conns : SSEEndpoint(c)
       \/ \E c \in Conns : SSEMessage(c)
       \/ \E c \in Conns : SSEClose(c)
       \/ \E sid \in SessionIds, body \in DisconnectBodies :
             nPosts < MaxPosts /\ PostMessage(sid, body) /\ UNCHANGED conns
       \/ \E h \in DOMAIN handlers, o \in CallOutcomes :
             ToolCallReturn(h, o) /\ UNCHANGED conns

\* One Call of upstream c's goroutine of some tools/list returns something
SomeToolsListCall(c) ==
    \E h \in DOMAIN handlers, o \in ListOutcomes : ToolsListCall(h, c, o)

NextCursor ==
    /\ UNCHANGED <<pureVars, clientVars, conns, keys>>
    /\ \/ \E sid \in ListSessionIds, k \in ApiKeys : HandleSSE(sid, k)
       \/ \E sid \in ListSessionIds : SSEWrite(sid)
       \/ \E sid \in ListSessionIds, body \in ListBodies :
             nPosts < MaxListPosts /\ PostMessage(sid, body)
       \/ \E c \in ConfigUniverse \cup {CyclicConfig} : SomeToolsListCall(c)
       \/ \E h \in DOMAIN handlers : ToolsListReturn(h)

NextTransport ==
    /\ UNCHANGED <<pureVars, gwVars, conns, keys>>
    /\ \/ StartInvoked
       \/ \E ok \in BOOLEAN : SSEDo(ok)
       \/ SSEEndpointEvent
       \/ SSEStreamEnds
       \/ SSEScanFails
       \/ \E ok \in BOOLEAN : StdioSpawn(ok)
       \/ StdioProcessExits
       \/ StdioKilled
       \/ HTTPStart
       \/ HTTPDone
       \/ TransportClose
       \/ ContextCancel

NextKeys ==
    /\ UNCHANGED <<pureVars, clientVars>>
    /\ \/ \E c \in Conns, token \in EditedKeys, sid \in FreshSessionIds :
             /\ \A d \in 1..(c - 1) : conns[d].pc # "idle"
             /\ SSEConnect(c, token, sid)
             /\ UNCHANGED keys
       \/ \E c \in Conns : SSEEndpoint(c) /\ UNCHANGED keys
       \/ \E c \in Conns : SSEClose(c) /\ UNCHANGED keys
       \/ \E k \in EditedKeys, u \in KeyUpdates :
             UpdateKey(k, u.servers, u.tools) /\ UNCHANGED conns
       \/ \E k \in EditedKeys : DeleteKey(k) /\ UNCHANGED conns
       \/ \E sid \in SessionIds, body \in KeyBodies :
             /\ nPosts < MaxPosts
             /\ PostMessage(sid, body)
             /\ UNCHANGED <<conns, keys>>
       \/ \E h \in DOMAIN handlers, o \in KeyOutcomes :
             ToolCallReturn(h, o) /\ UNCHANGED <<conns, keys>>

NextNoAccess ==
    /\ UNCHANGED <<pureVars, clientVars, conns, keys>>
    /\ \/ \E db \in Databases : ReloadUpstreams(db)
       \/ \E sid \in ListSessionIds, k \in NoAccessKeys : HandleSSE(sid, k)
       \/ \E sid \in ListSessionIds : SSEWrite(sid)
       \/ \E sid \in ListSessionIds, body \in NoAccessBodies :
             nPosts < MaxListPosts /\ PostMessage(sid, body)
       \/ \E h \in DOMAIN handlers, c \in ConfigUniverse, o \in ListOutcomes :
             ToolsListCall(h, c, o)
       \/ \E h \in DOMAIN handlers : ToolsListReturn(h)
       \/ \E h \in DOMAIN handlers, o \in CallOutcomes : ToolCallReturn(h, o)

NextAdmin ==
    /\ UNCHANGED <<pureVars, clientVars, conns, keys>>
    /\ \/ \E name \in AdminNames, enabled \in BOOLEAN :
             CreateServer(name, enabled)
       \/ \E id \in 1..MaxRows, name \in AdminNames, enabled \in BOOLEAN :
             UpdateServer(id, name, enabled)
       \/ \E id \in 1..MaxRows : DeleteServer(id)

NextReload ==
    /\ UNCHANGED <<pureVars, clientVars, conns, keys>>
    /\ \/ ReloadLock
       \/ ReloadStop
       \/ \E db \in Databases, ok \in BOOLEAN : ReloadQuery(db, ok)
       \/ ReloadStart
       \/ ReloadUnlock
       \/ \E names \in ReadSets : DispatchStart(names)
       \/ \E h \in DOMAIN handlers : DispatchRLock(h)
       \/ \E h \in DOMAIN handlers : DispatchSnapshot(h)
       \/ \E h \in DOMAIN handlers : DispatchReturn(h)

NextReady ==
    /\ UNCHANGED <<pureVars, gwVars, conns, keys>>
    /\ \/ TransportStart
       \/ transport.callbacks < MaxCallbacks /\ TransportReady
       \/ Len(calls) < MaxCalls /\ onTransportReadyInitialize
       \/ TransportReturn
       \/ Stop
       \/ \E m \in Methods \ {"initialize"} :
             Len(calls) < MaxCalls /\ CallStart(m)
       \/ \E k \in DOMAIN calls : CallAlloc(k)
       \/ \E k \in DOMAIN calls : CallRegister(k)
       \/ \E k \in DOMAIN calls, ok \in BOOLEAN : CallSend(k, ok)
       \/ \E k \in DOMAIN calls : CallReceive(k)
       \/ \E k \in DOMAIN calls : CallTimeout(k)
       \/ \E k \in DOMAIN calls : CallDeferred(k)
       \/ \E id \in wire \cup {0} : handleMessage([id |-> id])
       \/ handleMessageSend

NextLoop ==
    /\ UNCHANGED <<pureVars, gwVars, conns, keys>>
    /\ \/ LoopSelect
       \/ LoopStart
       \/ transport.callbacks < MaxCallbacks /\ TransportReady
       \/ Len(calls) < MaxCalls /\ onTransportReadyInitialize
       \/ LoopReturn
       \/ LoopWake
       \/ Stop

NextClient ==
    /\ UNCHANGED <<pureVars, gwVars, conns, keys>>
    /\ \/ \E m \in Methods : Len(calls) < MaxCalls /\ CallStart(m)
       \/ \E k \in DOMAIN calls : CallAlloc(k)
       \/ \E k \in DOMAIN calls : CallRegister(k)
       \/ \E k \in DOMAIN calls, ok \in BOOLEAN : CallSend(k, ok)
       \/ \E k \in DOMAIN calls : CallReceive(k)
       \/ \E k \in DOMAIN calls : CallTimeout(k)
       \/ \E k \in DOMAIN calls : CallDeferred(k)
       \/ \E id \in wire \cup {0} : handleMessage([id |-> id])
       \/ handleMessageSend
       \/ onTransportReady
       \/ connectLoop

\* A client of the HTTP wrapper that has made no Call, or 999999 of them
InitSync ==
    /\ PureIdle
    /\ GatewayIdle
    /\ ready = FALSE
    /\ idCounter \in {0, 999999}
    /\ pendingReqs = NoPending
    /\ calls = <<>>
    /\ wire = {}
    /\ reader = ReaderIdle
    /\ transport = TransportIdle

NextSync ==
    /\ UNCHANGED <<pureVars, gwVars, conns, keys>>
    /\ \/ \E m \in Methods : Len(calls) < MaxCalls /\ CallStart(m)
       \/ \E k \in DOMAIN calls : CallAlloc(k)
       \/ \E k \in DOMAIN calls : CallRegister(k)
       \/ \E k \in DOMAIN calls : CallSendSync(k)
       \/ \E k \in DOMAIN calls : CallReceive(k)
       \/ \E k \in DOMAIN calls : CallTimeout(k)
       \/ \E k \in DOMAIN calls : CallDeferred(k)
       \/ onTransportReady

\* One client and an upstream that writes a response with any id at any
\* time
NextResponses ==
    /\ UNCHANGED <<pureVars, gwVars, conns, keys>>
    /\ \/ \E m \in Methods : Len(calls) < MaxCalls /\ CallStart(m)
       \/ \E k \in DOMAIN calls : CallAlloc(k)
       \/ \E k \in DOMAIN calls : CallRegister(k)
       \/ \E k \in DOMAIN calls, ok \in BOOLEAN : CallSend(k, ok)
       \/ \E k \in DOMAIN calls : CallReceive(k)
       \/ \E k \in DOMAIN calls : CallTimeout(k)
       \/ \E k \in DOMAIN calls : CallDeferred(k)
       \/ \E i \in 0..(MaxCalls + 1) : handleMessage([id |-> i])
       \/ handleMessageSend
       \/ onTransportReady
       \/ connectLoop

\* One client and an upstream that writes any message at any time
NextInbound ==
    /\ UNCHANGED <<pureVars, gwVars, conns, keys>>
    /\ \/ \E m \in Methods : Len(calls) < MaxCalls /\ CallStart(m)
       \/ \E k \in DOMAIN calls : CallAlloc(k)
       \/ \E k \in DOMAIN calls : CallRegister(k)
       \/ \E k \in DOMAIN calls, ok \in BOOLEAN : CallSend(k, ok)
       \/ \E k \in DOMAIN calls : CallReceive(k)
       \/ \E k \in DOMAIN calls : CallTimeout(k)
       \/ \E k \in DOMAIN calls : CallDeferred(k)
       \/ \E msg \in InboundMessages : handleMessage(msg)
       \/ handleMessageSend
       \/ onTransportReady
       \/ connectLoop

\* main with the never-ending upstream among the enabled rows
InitCursor ==
    /\ PureIdle
    /\ ClientIdle
    /\ \E db \in Databases :
          /\ upstreams = MapOf(db \cup {CyclicConfig})
          /\ mu = MutexIdle(db \cup {CyclicConfig})
    /\ store = {}
    /\ conns = NoConns
    /\ keys = ApiKeys
    /\ sessions = NoSessions
    /\ handlers = NoTasks
    /\ httpStatus = 0
    /\ crashed = FALSE
    /\ nPosts = 0

InitTransport ==
    /\ PureIdle
    /\ GatewayIdle
    /\ ready = FALSE
    /\ idCounter = 0
    /\ pendingReqs = NoPending
    /\ calls = <<>>
    /\ wire = {}
    /\ reader = ReaderIdle
    /\ \E kind \in TransportKinds : transport = TransportOf(kind)

Spec == Init /\ [][Next]_vars

\* Start runs on: the connection attempt ends, and a closed body, a killed
\* process or a cancelled context is noticed
SpecTransport ==
    /\ InitTransport
    /\ [][NextTransport]_vars
    /\ WF_clientVars(\E ok \in BOOLEAN : SSEDo(ok))
    /\ WF_clientVars(\E ok \in BOOLEAN : StdioSpawn(ok))
    /\ WF_clientVars(HTTPStart)
    /\ WF_clientVars(SSEScanFails)
    /\ WF_clientVars(StdioKilled)
    /\ WF_clientVars(HTTPDone)

\* Every Call returns: each goroutine's pending Call is answered, and a
\* handler whose goroutines are done returns
SpecCursor ==
    /\ InitCursor
    /\ [][NextCursor]_vars
    /\ \A c \in ConfigUniverse \cup {CyclicConfig} :
          WF_gwVars(SomeToolsListCall(c))
    /\ WF_gwVars(\E h \in DOMAIN handlers : ToolsListReturn(h))

SpecResponses == InitClient /\ [][NextResponses]_vars

SpecInbound == InitClient /\ [][NextInbound]_vars

SpecSync == InitSync /\ [][NextSync]_vars

SpecList == Init /\ [][NextList]_vars

SpecQueue == InitClient /\ [][NextQueue]_vars

SpecReady == InitClient /\ [][NextReady]_vars

SpecReload == Init /\ [][NextReload]_vars

SpecLocal == Init /\ [][NextLocal]_vars

\* The goroutine of the connect loop is scheduled; nothing is assumed about
\* when transport.Start returns
SpecLoop ==
    /\ InitClient
    /\ [][NextLoop]_vars
    /\ WF_clientVars(LoopSelect)
    /\ WF_clientVars(LoopStart)
    /\ WF_clientVars(LoopWake)

SpecWrapper == InitWrapper /\ [][NextWrapper]_vars

SpecStdio == InitStdio /\ [][NextStdio]_vars

SpecSession == Init /\ [][NextSession]_vars

SpecDisconnect == Init /\ [][NextDisconnect]_vars

SpecKeys == Init /\ [][NextKeys]_vars

SpecNoAccess == Init /\ [][NextNoAccess]_vars

SpecAdmin == InitClient /\ [][NextAdmin]_vars

SpecPure == InitPure /\ [][NextPure]_vars

SpecClient == InitClient /\ [][NextClient]_vars

-----------------------------------------------------------------------------
(* Properties.                                                             *)

\* C1: the permission predicate is true iff, when allowed_tools is
\* non-empty, allowed_tools contains "*" or the prefixed name; otherwise iff
\* allowed_servers is empty or contains the upstream id as a decimal string.
C1_PermissionPredicate ==
    pout.kind = "perm" =>
        pout.value =
            IF pin.allowedTools # <<>>
            THEN \E i \in DOMAIN pin.allowedTools :
                    pin.allowedTools[i] = Star
                    \/ pin.allowedTools[i] = pin.toolName
            ELSE IF pin.allowedServers = <<>>
            THEN TRUE
            ELSE \E i \in DOMAIN pin.allowedServers :
                    pin.allowedServers[i] = Itoa(pin.c.id)

\* A tool is allowed by name although allowed_servers excludes its upstream
C1_Witness ==
    /\ pout.kind = "perm"
    /\ pin.allowedTools # <<>>
    /\ pin.allowedServers # <<>>
    /\ Itoa(pin.c.id) \notin ToMap(pin.allowedServers)
    /\ pout.value = TRUE

\* C2: with a non-empty allowed_tools, the predicate, the tools listed from
\* a page and the outcome of the tools/call routing are the same under any
\* two allowed_servers lists.
C2_ServersIgnored ==
    (pout.kind \in {"perm", "filter", "route"} /\ pin.allowedTools # <<>>)
        => pout.value = pout.other

\* A call is forwarded to upstream 1 under allowed_servers ["1"] and ["12"]
C2_Witness ==
    /\ pout.kind = "route"
    /\ pin.allowedTools # <<>>
    /\ ToMap(pin.allowedServers) = {Itoa(1)}
    /\ ToMap(pin.otherServers) = {Itoa(12)}
    /\ pout.value.forward
    /\ pout.value.client.id = 1

\* C3: when every upstream of the snapshot has answered every page, the
\* aggregated list contains N__t, for an upstream N and a tool t it
\* advertises, iff the session's predicate allows (id of N, N__t).
C3_ListedIffPermitted ==
    \A h \in DOMAIN handlers :
        (/\ handlers[h].pc = "list"
         /\ \A c \in DOMAIN handlers[h].tasks :
               handlers[h].tasks[c] = DoneTask(TRUE))
        => \A c \in DOMAIN handlers[h].tasks : \A t \in Advertised(c.name) :
              (Prefixed(c.name, t) \in ToMap(handlers[h].allTools.items))
              <=> hasPermission(
                     sessions[handlers[h].session].allowedServers,
                     sessions[handlers[h].session].allowedTools,
                     Itoa(c.id), Prefixed(c.name, t))

\* C4: a tools/call that the predicate rejects is answered with -32000
\* "Permission denied" and starts no upstream Call; a handler is in an
\* upstream Call only if the predicate allowed (the upstream's id, the full
\* prefixed name) for its session.
C4_DeniedNeverForwarded ==
    /\ [](\A h \in DOMAIN handlers :
            handlers[h].pc = "call" =>
                hasPermission(sessions[handlers[h].session].allowedServers,
                              sessions[handlers[h].session].allowedTools,
                              Itoa(handlers[h].call.client.id),
                              handlers[h].req.name))
    /\ [][\A sid \in DOMAIN sessions, body \in Bodies :
            (/\ PostMessage(sid, body)
             /\ body.valid /\ body.method \in CallMethods /\ body.paramsOk
             /\ Len(SplitN(body.name)) = 2
             /\ SplitN(body.name)[1] \in DOMAIN upstreams
             /\ ~hasPermission(sessions[sid].allowedServers,
                               sessions[sid].allowedTools,
                               Itoa(upstreams[SplitN(body.name)[1]].id),
                               body.name))
            => /\ handlers' = handlers
               /\ sessions'[sid].queue =
                    Append(sessions[sid].queue,
                           [from |-> sid, reqId |-> body.id,
                            resp |-> ErrorResponse(body.id, ServerError,
                                                   "Permission denied")])]_vars

\* A denial is queued for the session that asked
C4_Witness ==
    \E sid \in DOMAIN sessions :
        /\ Len(sessions[sid].queue) > 0
        /\ sessions[sid].queue[1].resp =
              ErrorResponse(sessions[sid].queue[1].reqId, ServerError,
                            "Permission denied")

C6_RoundTrip ==
    pout.kind = "split" => pout.parts = <<pin.serverName, pin.name>>

\* C7: every queued response is on the queue of the session its request was
\* POSTed to and carries that request's id.
C7_ResponseOnOwnSession ==
    \A sid \in DOMAIN sessions :
        \A i \in DOMAIN sessions[sid].queue :
            /\ sessions[sid].queue[i].from = sid
            /\ sessions[sid].queue[i].resp.id = sessions[sid].queue[i].reqId

\* Two sessions each hold a response, one of them forwarded from an upstream
C7_Witness ==
    \E a, b \in DOMAIN sessions :
        /\ a # b
        /\ Len(sessions[a].queue) > 0
        /\ Len(sessions[b].queue) > 0
        /\ sessions[a].queue[1].resp =
              ResultResponse(sessions[a].queue[1].reqId, [type |-> "upstream"])

\* C8: the pending-request map holds no slot of a Call that has returned,
\* and holds exactly the slots of the Calls between their registration and
\* their return.
C8_PendingExactlyInProgress ==
    /\ \A k \in DOMAIN calls :
          calls[k].pc = "returned" =>
              \A s \in DOMAIN pendingReqs :
                  /\ pendingReqs[s] # k
                  /\ calls[k].id # 0 => s # Itoa(calls[k].id)
    /\ \A k \in DOMAIN calls :
          calls[k].pc \in {"send", "wait", "deferred"} =>
              /\ Itoa(calls[k].id) \in DOMAIN pendingReqs
              /\ pendingReqs[Itoa(calls[k].id)] = k
    /\ \A s \in DOMAIN pendingReqs :
          calls[pendingReqs[s]].pc \in {"send", "wait", "deferred"}

\* One Call has timed out and returned while another still waits
C8_Witness ==
    \E k, j \in DOMAIN calls :
        /\ calls[k].pc = "returned"
        /\ calls[k].result = ErrResult("timeout waiting for upstream response")
        /\ calls[j].pc = "wait"
        /\ DOMAIN pendingReqs = {Itoa(calls[j].id)}

\* C9: a tools/list result without tools carries the empty array.
C9_EmptyArray ==
    \A sid \in DOMAIN sessions :
        \A i \in DOMAIN sessions[sid].queue :
            (/\ ~IsError(sessions[sid].queue[i].resp)
             /\ sessions[sid].queue[i].resp.result.type = "tools"
             /\ sessions[sid].queue[i].resp.result.tools.array = <<>>)
            => ~sessions[sid].queue[i].resp.result.tools.null

\* C10: whatever the upstream Calls of a tools/list return, no goroutine of
\* handleToolsList fails and the handler can build its result.
C10_NoFailureSurfaces ==
    /\ ~crashed
    /\ \A h \in DOMAIN handlers :
          \A c \in DOMAIN handlers[h].tasks :
              handlers[h].tasks[c].pc # "panic"

\* C11: an upstream that answers -32602 is asked without params, then with
\* {}, then with {"cursor": null}, and after the third -32602 is not asked
\* again; none of these answers adds a tool or changes another upstream's
\* goroutine.
C11_ThreeAttempts ==
    [][\A h \in DOMAIN handlers : \A c \in ConfigUniverse :
          ToolsListCall(h, c, [kind |-> "rpcerr", code |-> InvalidParams])
          => /\ handlers[h].tasks[c].pc = "callNil"
                => handlers'[h].tasks[c].pc = "callEmpty"
             /\ handlers[h].tasks[c].pc = "callEmpty"
                => handlers'[h].tasks[c].pc = "callNullCursor"
             /\ handlers[h].tasks[c].pc \in {"callNullCursor", "callPage"}
                => handlers'[h].tasks[c].pc = "failed"
             /\ handlers'[h].allTools = handlers[h].allTools
             /\ \A d \in DOMAIN handlers[h].tasks \ {c} :
                   handlers'[h].tasks[d] = handlers[h].tasks[d]
             /\ ~crashed']_vars

\* Upstream "a" has refused two attempts and is asked with {"cursor": null},
\* while the tool of "a_" is listed
C11_Witness ==
    \E h \in DOMAIN handlers :
        /\ handlers[h].pc = "list"
        /\ DOMAIN handlers[h].tasks = ConfigUniverse
        /\ handlers[h].tasks[[id |-> 1, name |-> <<"a">>]].pc =
              "callNullCursor"
        /\ handlers[h].tasks[[id |-> 12, name |-> <<"a", "_">>]] =
              DoneTask(TRUE)
        /\ handlers[h].allTools.items = <<Prefixed(<<"a", "_">>, <<"b">>)>>

\* C12: when a page request of upstream N has failed, the aggregated list
\* holds no tool of N (a name N__t that no other upstream of the snapshot
\* produces).
C12_FailedContributesNothing ==
    \A h \in DOMAIN handlers :
        \A c \in DOMAIN handlers[h].tasks :
            handlers[h].tasks[c].pc = "failed" =>
                \A t \in Advertised(c.name) :
                    (\A d \in DOMAIN handlers[h].tasks \ {c} :
                        \A u \in Advertised(d.name) :
                            Prefixed(d.name, u) # Prefixed(c.name, t))
                    => Prefixed(c.name, t)
                          \notin ToMap(handlers[h].allTools.items)

\* C13: a session's queue never holds more than 10 messages; a POST whose
\* response finds the queue full is answered 202, leaves the queue and the
\* registry as they are, and starts nothing.
C13_FullQueueDrops ==
    /\ [](\A sid \in DOMAIN sessions : Len(sessions[sid].queue) <= 10)
    /\ [][\A sid \in DOMAIN sessions : \A body \in QueueBodies :
            (PostMessage(sid, body) /\ Len(sessions[sid].queue) = 10)
            => /\ httpStatus' = 202
               /\ DOMAIN sessions' = DOMAIN sessions
               /\ sessions'[sid].queue = sessions[sid].queue
               /\ handlers' = handlers
               /\ ~crashed']_vars

\* A response has been dropped on a full queue and the POST answered 202
C13_Witness ==
    \E sid \in DOMAIN sessions :
        /\ Len(sessions[sid].queue) = 10
        /\ sessions[sid].dropped > 0
        /\ httpStatus = 202

\* C14: the client is ready, and a Call other than initialize is accepted,
\* only when an initialize Call has returned with a response.
C14_ReadyAfterInitialize ==
    /\ ready =>
          \E k \in DOMAIN calls :
              /\ calls[k].method = "initialize"
              /\ calls[k].pc = "returned"
              /\ calls[k].result.kind = "resp"
    /\ \A j \in DOMAIN calls :
          (calls[j].method # "initialize"
           /\ calls[j].result # ErrResult("upstream not ready"))
          => \E k \in DOMAIN calls :
                /\ calls[k].method = "initialize"
                /\ calls[k].pc = "returned"
                /\ calls[k].result.kind = "resp"

\* C15: ready is true only while transport.Start is running and has
\* signalled readiness.
C15_ReadyOnlyWhileConnected ==
    ready => (transport.running /\ transport.signalled)


\* C16: after every completed ReloadUpstreams the map holds exactly one
\* entry per enabled row of the store, keyed by the row's name, each with
\* one started client, and no client started earlier is still running.
C16_ReloadPostcondition ==
    mu.writer = "idle" =>
        /\ upstreams = MapOf(mu.rows)
        /\ \A c \in ConfigUniverse :
              mu.live[c] = IF c \in mu.rows THEN 1 ELSE 0

\* C17: the map a dispatch read under its read lock is the map as a
\* completed ReloadUpstreams (or the construction) left it, never the map
\* of a reload in progress.
C17_SnapshotAtomic ==
    /\ mu.writer = "idle" => upstreams = mu.committed
    /\ \A h \in DOMAIN handlers :
          handlers[h].pc = "blocked" => handlers[h].snap = handlers[h].seen

\* A dispatch waits for its read lock while the reload has started one of
\* two clients, and another dispatch has read a client
C17_Witness ==
    /\ mu.writer = "start" /\ mu.todo # <<>> /\ DOMAIN upstreams # {}
    /\ \E h \in DOMAIN handlers : handlers[h].pc = "start"
    /\ \E h \in DOMAIN handlers :
          handlers[h].pc = "blocked" /\ DOMAIN handlers[h].snap # {}

\* C18: the read locks held are those of the dispatches between RLock and
\* RUnlock, none is held by a dispatch blocked in its upstream Calls, and
\* ReloadUpstreams can take the write lock while every dispatch is blocked.
C18_NoLockAcrossCall ==
    /\ mu.readers =
         Cardinality({h \in DOMAIN handlers : handlers[h].pc = "locked"})
    /\ (mu.writer = "idle"
          /\ \A h \in DOMAIN handlers : handlers[h].pc = "blocked")
        => ENABLED ReloadLock

\* A reload completed and changed the map while a dispatch that had read
\* the old one was still blocked in its Calls
C18_Witness ==
    /\ mu.writer = "idle"
    /\ \E h \in DOMAIN handlers :
          /\ handlers[h].pc = "blocked"
          /\ handlers[h].seen # Reads(handlers[h].names, mu.committed)


\* C19: a tools/call is checked in this order and the first failing check
\* decides: a name without "__" gets -32602 "Invalid tool name format";
\* otherwise a left half that is no key of the map gets -32602 "Server not
\* found"; otherwise a permission denial gets -32000 "Permission denied";
\* in the three cases no upstream Call is started.
C19_CheckOrder ==
    [][\A sid \in DOMAIN sessions, body \in Bodies :
        (/\ PostMessage(sid, body)
         /\ body.valid /\ body.method \in CallMethods /\ body.paramsOk)
        => LET parts == SplitN(body.name)
               queued(code, message) ==
                   /\ handlers' = handlers
                   /\ sessions'[sid].queue =
                        Append(sessions[sid].queue,
                               [from |-> sid, reqId |-> body.id,
                                resp |-> ErrorResponse(body.id, code,
                                                       message)])
           IN  /\ Len(parts) # 2
                    => queued(InvalidParams, "Invalid tool name format")
               /\ (Len(parts) = 2 /\ parts[1] \notin DOMAIN upstreams)
                    => queued(InvalidParams, "Server not found")
               /\ (/\ Len(parts) = 2 /\ parts[1] \in DOMAIN upstreams
                   /\ ~hasPermission(sessions[sid].allowedServers,
                                     sessions[sid].allowedTools,
                                     Itoa(upstreams[parts[1]].id),
                                     body.name))
                    => queued(ServerError, "Permission denied")]_vars

\* A session restricted to one tool asked for a name without "__" and for
\* a tool of an upstream that is not in the map; neither name is permitted
C19_Witness ==
    \E sid \in DOMAIN sessions :
        /\ sessions[sid].allowedTools = <<Prefixed(<<"a">>, <<"r">>)>>
        /\ <<"a">> \in DOMAIN upstreams
        /\ Len(sessions[sid].queue) = 2
        /\ sessions[sid].queue[1].resp =
              ErrorResponse("2", InvalidParams, "Invalid tool name format")
        /\ sessions[sid].queue[2].resp =
              ErrorResponse("1", InvalidParams, "Server not found")


\* C20: when the upstream Call of a tools/call returns an error, the
\* response is the error -32000 with the error's text and the downstream
\* request's id; when the upstream answers with a result or with its own
\* JSON-RPC error, the response is that answer with only the id replaced
\* by the downstream request's id.
C20_FailureSurfaced ==
    [][\A h \in DOMAIN handlers, o \in CallOutcomes :
        ToolCallReturn(h, o)
        => LET req == handlers[h].req
               queue == sessions'[handlers[h].session].queue
               resp == queue[Len(queue)].resp
           IN  /\ o.kind = "err"
                    => resp = ErrorResponse(req.id, ServerError, o.text)
               /\ o.kind = "resp"
                    => resp = [o.wire EXCEPT !.id = req.id]]_vars


\* C21: whatever the upstream map holds, initialize, ping, logging/setLevel
\* and completion/complete are answered locally with a result,
\* notifications/initialized with no response and an unsupported method
\* with the error -32601; the POST is accepted and no upstream Call starts.
C21_AnsweredLocally ==
    /\ [](handlers = NoTasks)
    /\ [][\A sid \in DOMAIN sessions, body \in LocalBodies :
            PostMessage(sid, body)
            => LET queue == sessions'[sid].queue
               IN  /\ httpStatus' = 202
                   /\ body.method = "notifications/initialized"
                        => queue = sessions[sid].queue
                   /\ body.method # "notifications/initialized"
                        => /\ Len(queue) = Len(sessions[sid].queue) + 1
                           /\ queue[Len(queue)].resp.id = body.id
                           /\ IsError(queue[Len(queue)].resp)
                                <=> body.method = "resources/list"
                           /\ body.method = "resources/list"
                                => queue[Len(queue)].resp.error.code
                                       = MethodNotFound]_vars

\* initialize was answered with its result while the map was empty
C21_Witness ==
    /\ DOMAIN upstreams = {}
    /\ mu.rows = {}
    /\ nPosts = 1
    /\ \E sid \in DOMAIN sessions :
          /\ Len(sessions[sid].queue) = 1
          /\ sessions[sid].queue[1].resp =
                ResultResponse("1", [type |-> "initialize"])


\* C22: a Call for a method other than "initialize" on a client that is not
\* ready returns the "not ready" error at once: no request id is
\* allocated, no slot is registered and nothing is sent.
C22_NotReadyRejected ==
    /\ [](\A k \in DOMAIN calls :
            calls[k].result = ErrResult("upstream not ready")
            => /\ calls[k].pc = "returned"
               /\ calls[k].id = 0
               /\ \A s \in DOMAIN pendingReqs : pendingReqs[s] # k)
    /\ [][\A method \in Methods :
            (CallStart(method) /\ ~ready /\ method # "initialize")
            => /\ calls'[Len(calls')].pc = "returned"
               /\ calls'[Len(calls')].result =
                     ErrResult("upstream not ready")
               /\ UNCHANGED <<idCounter, pendingReqs, wire>>]_vars

\* On a client that is not ready a tools/list was rejected while an
\* initialize got its id
C22_Witness ==
    /\ ~ready
    /\ \E k \in DOMAIN calls :
          /\ calls[k].method = "tools/list"
          /\ calls[k].result = ErrResult("upstream not ready")
    /\ \E k \in DOMAIN calls :
          calls[k].method = "initialize" /\ calls[k].id > 0


\* C23: every return of transport.Start clears ready and, while the client
\* is not stopped, is followed by another transport.Start; once Stop has
\* been called the loop terminates and never invokes transport.Start again.
C23_ReconnectUntilStopped ==
    /\ [][LoopReturn => ~ready']_vars
    /\ (transport.pc = "sleep" /\ ~transport.stopped)
         ~> (transport.pc = "running" \/ transport.stopped)
    /\ (transport.stopped /\ transport.pc \in {"sleep", "select"})
         ~> (transport.pc = "done")
    /\ [][transport.stopped => ~LoopStart]_vars

\* C23 as amended: every return of transport.Start clears ready and, while
\* the client is not stopped, is followed by another transport.Start; once
\* Stop has been called the loop invokes transport.Start at most once more
\* (when Stop fell between the loop's check of the context and the call)
\* and terminates at its first check after transport.Start has returned.
C23_ReconnectUntilCancelled ==
    /\ [][LoopReturn => ~ready']_vars
    /\ (transport.pc = "sleep" /\ ~transport.stopped)
         ~> (transport.pc = "running" \/ transport.stopped)
    /\ (transport.stopped /\ transport.pc \in {"sleep", "select"})
         ~> (transport.pc = "done")
    /\ [](transport.late <= 1)
    /\ [][transport.pc = "done" => transport'.pc = "done"]_vars

\* The loop has terminated after a transport.Start that was invoked after
\* Stop, and after an earlier return had cleared ready
C23_Witness ==
    /\ transport.stopped
    /\ transport.pc = "done"
    /\ transport.late = 1
    /\ ~ready
    /\ Len(calls) > 0


\* C24: an upstream that answered -32602 to tools/list without params and
\* then succeeded with {} or with {"cursor": null} has every tool of that
\* answer and of the pages that followed in the aggregated list, under the
\* prefixed name.
C24_FallbackListsAll ==
    \A h \in DOMAIN handlers :
        \A c \in DOMAIN handlers[h].tasks :
            handlers[h].tasks[c] = DoneTask(FALSE) =>
                \A t \in Advertised(c.name) :
                    Prefixed(c.name, t) \in ToMap(handlers[h].allTools.items)

\* C24 as amended: an upstream that answered -32602 to tools/list without
\* params and then succeeded with {}, or answered -32602 to {} too and then
\* succeeded with {"cursor": null}, has every tool of that answer and of the
\* pages that followed that the session's key permits in the aggregated
\* list, under the prefixed name.
C24_FallbackListsPermitted ==
    \A h \in DOMAIN handlers :
        \A c \in DOMAIN handlers[h].tasks :
            handlers[h].tasks[c] = DoneTask(FALSE) =>
                \A t \in Advertised(c.name) :
                    hasPermission(sessions[handlers[h].session].allowedServers,
                                  sessions[handlers[h].session].allowedTools,
                                  Itoa(c.id), Prefixed(c.name, t))
                    => Prefixed(c.name, t)
                          \in ToMap(handlers[h].allTools.items)

\* Upstream "a" was listed through the fallback, both of its pages, for a
\* session without restrictions
C24_Witness ==
    \E h \in DOMAIN handlers :
        /\ [id |-> 1, name |-> <<"a">>] \in DOMAIN handlers[h].tasks
        /\ handlers[h].tasks[[id |-> 1, name |-> <<"a">>]] = DoneTask(FALSE)
        /\ sessions[handlers[h].session].allowedServers = <<>>
        /\ sessions[handlers[h].session].allowedTools = <<>>
        /\ {Prefixed(<<"a">>, <<"r">>), Prefixed(<<"a">>, <<"_", "b">>)}
              \subseteq ToMap(handlers[h].allTools.items)


\* C25: the arguments the HTTP request is built from are the non-empty
\* defaults with the caller's arguments put over them: a key the caller
\* gave has the caller's value, another key with a non-empty default has a
\* default of a parameter of that name, a key in neither is absent, and
\* without caller arguments they are exactly the non-empty defaults.
C25_CallerWins ==
    (pout.kind = "wrap" /\ pout.sent) =>
        LET defaults(k) ==
                {pin.parameters[i].default : i \in
                    {j \in DOMAIN pin.parameters :
                        /\ pin.parameters[j].name = k
                        /\ pin.parameters[j].default # ""}}
        IN  /\ DOMAIN pout.args =
                 DOMAIN pin.arguments
                 \cup {k \in {"x", "y"} : defaults(k) # {}}
            /\ \A k \in DOMAIN pout.args :
                  IF k \in DOMAIN pin.arguments
                  THEN pout.args[k] = pin.arguments[k]
                  ELSE pout.args[k] \in defaults(k)
            /\ pin.arguments = NoArguments
                 => pout.args = FillDefaults(pin.parameters)

\* The caller's "v" for x replaced the default "d", and y kept its default
C25_Witness ==
    /\ pout.kind = "wrap" /\ pout.sent
    /\ pin.parameters = <<[name |-> "x", default |-> "d"],
                          [name |-> "y", default |-> "e"]>>
    /\ DOMAIN pin.arguments = {"x"}
    /\ pin.arguments["x"] = "v"
    /\ pout.args["x"] = "v"
    /\ pout.args["y"] = "e"

\* C26: when the endpoint answers a tools/call with a status >= 400, the
\* wrapper delivers a JSON-RPC result (no JSON-RPC error) whose
\* content[0].text carries the error and whose isError is true.
C26_HttpErrorFlagged ==
    (/\ pout.kind = "wrap" /\ pout.sent
     /\ pin.endpoint.kind = "http" /\ pin.endpoint.status >= 400)
    => /\ ~IsError(pout.msg)
       /\ pout.msg.result.content[1].text.status = pin.endpoint.status
       /\ "isError" \in DOMAIN pout.msg.result
       /\ pout.msg.result.isError


\* C27: a stdio upstream whose command is empty, or whose command or one
\* of whose arguments contains a forbidden character, is never spawned and
\* never signals readiness, however often Start is attempted, and the
\* admin operation that submits it is rejected.
C27_NeverSpawned ==
    (/\ pin.kind = "stdio" /\ pin.transportType = "stdio"
     /\ \/ pin.command = <<>>
        \/ \E i \in DOMAIN pin.command : pin.command[i] \in Forbidden
        \/ \E j \in DOMAIN pin.args.items :
              \E i \in DOMAIN pin.args.items[j] :
                  pin.args.items[j][i] \in Forbidden)
    => /\ ~pout.spawned
       /\ ~pout.signalled
       /\ pout.status # 200
       /\ ~pin.stored => ~pout.row

\* A stored row whose second argument holds "$" went through two Start
\* attempts without a child
C27_Witness ==
    /\ pin.kind = "stdio" /\ pin.transportType = "stdio" /\ pin.stored
    /\ pin.command = <<"l">>
    /\ pin.args.items = <<<<"l">>, <<"$">>>>
    /\ pout.starts = 2
    /\ ~pout.spawned


\* C28: whatever admin operations were made, no two rows of the table have
\* the same name, no row's name contains "__", and every name of the
\* gateway map is what splitting a prefixed tool name at the first "__"
\* gives back.
C28_NamesUniqueNoSeparator ==
    /\ \A r, q \in store : r.name = q.name => r = q
    /\ \A r \in store : ~ContainsSep(r.name)
    /\ \A n \in DOMAIN upstreams :
          /\ ~ContainsSep(n)
          /\ SplitN(Prefixed(n, <<"r">>)) = <<n, <<"r">>>>


\* C29: a session created from a key whose allowed_tools is the stored list
\* "[]", which the dashboard tags "No Access", has no tools/call forwarded
\* to an upstream and no tool collected by a tools/list, whatever its
\* allowed_servers holds.
C29_NoToolAccess ==
    \A h \in DOMAIN handlers :
        /\ handlers[h].pc # "call"
        /\ handlers[h].allTools.items = <<>>


\* C30: the registry holds exactly the sessions of the connections that are
\* registered or open, and these presented the token of a stored key; a
\* request whose token matches no key is answered 401 and leaves the
\* registry as it was; the endpoint event of a connection is written while
\* its session is registered; the close of a connection removes its
\* session; a POST for an id that is not registered is answered 404 and
\* changes neither a queue nor the handlers.
C30_RegistryIsOpenConnections ==
    /\ [](/\ DOMAIN sessions =
               {conns[c].sid :
                   c \in {x \in Conns : conns[x].pc \in {"registered", "open"}}}
          /\ \A c \in Conns :
                /\ conns[c].pc \in {"registered", "open", "closed"}
                      => \E k \in ApiKeys : k.key = conns[c].token
                /\ conns[c].pc = "rejected"
                      => /\ ~\E k \in ApiKeys : k.key = conns[c].token
                         /\ conns[c].status = 401)
    /\ [][/\ \A c \in Conns :
                /\ conns'[c].pc = "rejected" /\ conns[c].pc # "rejected"
                      => sessions' = sessions
                /\ conns'[c].pc = "open" /\ conns[c].pc # "open"
                      => conns[c].sid \in DOMAIN sessions
                /\ conns'[c].pc = "closed" /\ conns[c].pc # "closed"
                      => conns[c].sid \notin DOMAIN sessions'
           /\ \A sid \in SessionIds \cup {UnknownSession},
                 body \in SessionBodies :
                   (sid \notin DOMAIN sessions /\ PostMessage(sid, body))
                      => (httpStatus' = 404
                          /\ UNCHANGED <<sessions, handlers>>)]_vars

\* One request was answered 401, the other connection was opened and
\* closed, and a POST for its session id was then answered 404
C30_Witness ==
    /\ \E c, d \in Conns :
          /\ conns[c].pc = "rejected"
          /\ conns[d].pc = "closed"
          /\ conns[d].sid \notin DOMAIN sessions
    /\ httpStatus = 404
    /\ nPosts = MaxPosts


\* C31: the slot of a Call is registered when its request is handed to the
\* transport, so a Call whose response arrives inside Send (the HTTP
\* wrapper) has that response on its channel when Send returns, and
\* returns it and no timeout.
C31_SyncResponseReturned ==
    \A k \in DOMAIN calls :
        /\ calls[k].pc \in {"send", "wait"}
              => Itoa(calls[k].id) \in DOMAIN pendingReqs
        /\ calls[k].pc = "wait" => calls[k].chan = <<[id |-> calls[k].id]>>
        /\ calls[k].pc \in {"deferred", "returned"}
              => calls[k].result \in {ErrResult("upstream not ready"),
                                      [kind |-> "resp",
                                       resp |-> [id |-> calls[k].id]]}


\* C32: under every interleaving of the Calls of one client, reconnects
\* included, no two Calls have the same request id, and a message with id
\* i is put only on the channel of the Call that allocated i: what the
\* reader holds, what a channel holds and what a Call returns carry the id
\* of that Call.
C32_DistinctIdsOwnResponses ==
    /\ \A k, j \in DOMAIN calls :
          (k # j /\ calls[k].id # 0) => calls[k].id # calls[j].id
    /\ reader.pc = "send" => reader.resp.id = calls[reader.ch].id
    /\ \A k \in DOMAIN calls :
          /\ \A i \in DOMAIN calls[k].chan :
                calls[k].chan[i].id = calls[k].id
          /\ calls[k].result.kind = "resp"
                => calls[k].result.resp.id = calls[k].id

\* Two Calls have returned, each with the response of its own id, after a
\* reconnect cleared ready
C32_Witness ==
    /\ Len(calls) = 2
    /\ ~ready
    /\ \A k \in DOMAIN calls :
          /\ calls[k].pc = "returned"
          /\ calls[k].result = [kind |-> "resp", resp |-> [id |-> k]]


\* C33: the reader never waits for good on a slot: whenever handleMessage
\* is at its send, the channel has room or its Call has still to take a
\* message from it, so handleMessage returns and the next message of the
\* upstream is processed.
C33_ReaderNeverStuck ==
    reader.pc = "send" =>
        \/ Len(calls[reader.ch].chan) < ChanCap
        \/ calls[reader.ch].pc \notin {"deferred", "returned"}

\* C34: a Call is completed by a response only: no message with a method
\* is put on the channel of a Call or returned by one.
C34_OnlyResponsesComplete ==
    \A k \in DOMAIN calls :
        /\ \A i \in DOMAIN calls[k].chan :
              "method" \notin DOMAIN calls[k].chan[i]
        /\ calls[k].result.kind = "resp"
              => "method" \notin DOMAIN calls[k].result.resp


\* C35: the queue of a session is closed only when no handler can still
\* send on it: a handler that found the session and then finishes, sending
\* its response, never does so after the connection's cleanup has closed
\* the queue.
C35_NoSendOnClosedQueue ==
    [][\A h \in DOMAIN handlers :
          h \notin DOMAIN handlers' => ~ChannelClosed(handlers[h].session)]_vars


\* C36: when every Call returns, a tools/list that has started finishes:
\* every handler that is aggregating eventually returns (or the process
\* has panicked), whatever pages the upstreams answer with.
C36_ToolsListReturns ==
    (handlers # NoTasks) ~> (handlers = NoTasks \/ crashed)


\* C37: one invocation of Start launches onReady at most once, exactly once
\* when the transport has become able to send, and not at all when it
\* failed before that.
C37_ReadyOncePerStart ==
    /\ transport.readies <= 1
    /\ transport.kind \in {"stdio", "http"} /\ transport.pc = "open"
          => transport.readies = 1
    /\ transport.pc \in {"idle", "connecting"} => transport.readies = 0

\* C38: once Close has been called on a transport whose Start is running,
\* Start returns, whether or not the context is cancelled.
C38_CloseEndsStart ==
    (transport.closes > 0 /\ transport.pc \in {"connecting", "open"})
        ~> (transport.pc = "returned")


\* C39: the permissions of a session are those of its key when the
\* connection was made: whatever UpdateKey and DeleteKey did since, the
\* session holds the lists parsed from the row found at connect, a
\* tools/call on it is forwarded or refused as that row decides, and a
\* refusal is queued on the session and answered 202 while the connection
\* is open.
C39_PermissionsAreConnectSnapshot ==
    /\ [](\A c \in Conns :
            conns[c].pc \in {"registered", "open"}
               => /\ conns[c].sid \in DOMAIN sessions
                  /\ sessions[conns[c].sid].allowedServers
                        = ParseStringList(conns[c].key.servers)
                  /\ sessions[conns[c].sid].allowedTools
                        = ParseStringList(conns[c].key.tools))
    /\ [][\A c \in Conns, body \in KeyBodies :
            (/\ conns[c].pc \in {"registered", "open"}
             /\ PostMessage(conns[c].sid, body))
               => LET r == RouteToolCall(
                              upstreams,
                              ParseStringList(conns[c].key.servers),
                              ParseStringList(conns[c].key.tools),
                              body.id, body.name)
                      q == sessions'[conns[c].sid].queue
                  IN  /\ r.forward <=> (nPosts + 1) \in DOMAIN handlers'
                      /\ ~r.forward
                            => /\ httpStatus' = 202
                               /\ Len(q) = Len(sessions[conns[c].sid].queue) + 1
                               /\ q[Len(q)].resp = r.resp]_vars

\* Two connections are open that found different permissions under the
\* same key, the key has since been deleted, a call of one session is in
\* progress and a refusal is queued on the other
C39_Witness ==
    \E c, d \in Conns :
       /\ conns[c].pc = "open"
       /\ conns[d].pc = "open"
       /\ conns[c].token = conns[d].token
       /\ conns[c].key # conns[d].key
       /\ ~\E k \in keys : k.key = conns[c].token
       /\ \E h \in DOMAIN handlers :
             /\ handlers[h].pc = "call"
             /\ handlers[h].session = conns[c].sid
       /\ sessions[conns[d].sid].queue # <<>>


\* C40: for every request id n >= 1 the counter gives out, the key under
\* which Call stores the response channel, the decimal string of n, is the
\* key handleMessage computes from a response whose numeric id is n, so
\* the response of every Call past its registration finds the slot.
C40_ResponseKeyIsSlotKey ==
    \A k \in DOMAIN calls :
        (calls[k].id >= 1 /\ calls[k].pc \in {"send", "wait"})
            => /\ FormatV(calls[k].id) = Itoa(calls[k].id)
               /\ FormatV(calls[k].id) \in DOMAIN pendingReqs
               /\ pendingReqs[FormatV(calls[k].id)] = k

=============================================================================
